---- MODULE Spec2Model ----
(***************************************************************************)
(* State-machine model of the 4-wide combo decision engine: the pieces and *)
(* piece sets, the 4x4 field and the move catalogue, the NFA built from    *)
(* the catalogue with its EndStates query, and the game driver StartGame.  *)
(***************************************************************************)
EXTENDS Integers, Sequences, FiniteSets, TLC

\* ------------------------------------------------------------------------
\* State
\* ------------------------------------------------------------------------

VARIABLES
    \* StartGame: the goroutine's position and its captured variables.
    pc, state, current, next, bag,
    \* The input channel: its buffer, its capacity and whether it is closed;
    \* sent lists the pieces the producer has put on it.
    input, inputCap, inputClosed, sent,
    \* The producer's script: the stream of pieces the game deals, first
    \* piece and preview included, or <<>> when it sends any piece.
    stream,
    \* The output channel: its buffer, its capacity and whether it is closed.
    output, outputCap, outputClosed,
    \* History of the game: the number of pieces the driver has received and
    \* the last of them; the number of decisions it has sent; the pieces that
    \* have arrived and are not played yet; the last state emitted; the
    \* last emission; the randomizer's bag of the arrived pieces and whether
    \* they all followed it; whether the last piece received broke it;
    \* whether a nil has been emitted.
    consumed, lastInput, emitted, arrival, lastState, lastEmit,
    drawn, legal, impossible, nilEmitted,
    \* NFA.EndStates: the call's position, its arguments, its two buffers,
    \* its loop index and what it returned.
    esPc, esInitial, esPieces, esCur, esNext, esIdx, esResult,
    \* A trajectory of the NFA: the state it is in, and the state and the
    \* piece of the transition that led there.
    tState, tPrev, tPiece,
    \* The MDP: the game it is built for; m.value and m.policy; the method
    \* that is running and who called it; UpdateValues' cells and its shard
    \* workers; the game states UpdatePolicy has not visited yet and its
    \* count of changes; the number of calls made; the last call that
    \* returned; whether the MDP is as Update left it.
    game, value, policy, mdpPc, caller, valCurrent, worker, pending, changed,
    calls, last, settled,
    \* NewMDP: what it is called with; the position of its own goroutine;
    \* the goroutine that starts the workers; the worker of each bag; the
    \* channel stableCh; the number of values in the channel
    \* maxConcurrency; the counter of the WaitGroup.
    building, buildPc, launcher, bagWorker, stableCh, maxConcurrency, wg,
    \* A call of a function: the function with its arguments, and what it
    \* returned; the scores slice of scorePolicy.NextState and the indexes
    \* of its goroutines that are done, in the order they finished.
    call, result, scores, finished,
    \* The objects in memory and the variables that point to them: the
    \* SeqSets (ContainsAllSeqSet, the permutations table and the allocated
    \* nodes) and the SeqSet pointers that the caller holds; in NewNFAScorer
    \* the two maps and the variables prevInviable and inviable.
    heap, roots

gameVars == <<state, current, next, bag>>
inputVars == <<input, inputCap, inputClosed, sent, stream>>
outputVars == <<output, outputCap, outputClosed>>
historyVars == <<consumed, lastInput, emitted, arrival, lastState, lastEmit,
                 drawn, legal, impossible, nilEmitted>>
driverVars == <<pc, gameVars, inputVars, outputVars, historyVars>>
esVars == <<esPc, esInitial, esPieces, esCur, esNext, esIdx, esResult>>
trajVars == <<tState, tPrev, tPiece>>

mdpVars == <<game, value, policy, mdpPc, caller, valCurrent, worker, pending,
             changed, calls, last, settled>>
\* The variables of the parts that came after the driver and the NFA.
callVars == <<call, result, scores, finished, heap, roots>>
buildVars == <<building, buildPc, launcher, bagWorker, stableCh,
               maxConcurrency, wg>>
restVars == <<mdpVars, callVars, buildVars>>

vars == <<driverVars, esVars, trajVars, restVars>>

\* ------------------------------------------------------------------------
\* Pieces (package tetris)
\* ------------------------------------------------------------------------

EmptyPiece == 0
T == 1
L == 2
J == 3
S == 4
Z == 5
O == 6
I == 7

\* NonemptyPieces is an ordered array of non-empty pieces.
NonemptyPieces == <<T, L, J, S, Z, O, I>>

\* The seven non-empty pieces, as a set.
Pieces == {NonemptyPieces[i] : i \in DOMAIN NonemptyPieces}

\* Mirror returns the mirrored version of a piece.
Mirror(p) ==
    CASE p = L -> J
      [] p = J -> L
      [] p = S -> Z
      [] p = Z -> S
      [] OTHER -> p

\* One bit of an unsigned word: whether bit i of w is set.
Bit(w, i) == (w \div (2 ^ i)) % 2 = 1

\* PieceSet is a uint8 bit mask; bit p stands for piece p.
PieceSetOf(p) == 2 ^ p

\* Add returns a PieceSet with a certain Piece added: ps | (1 << p).
Add(ps, p) == IF Bit(ps, p) THEN ps ELSE (ps + 2 ^ p) % 256

\* Contains returns whether the PieceSet contains the piece: ps&(1<<p) != 0.
Contains(ps, p) == Bit(ps, p)

\* Len returns the number of items in the PieceSet: bits.OnesCount8.
PieceSetLen(ps) == Cardinality({i \in 0..7 : Bit(ps, i)})

\* ------------------------------------------------------------------------
\* Field4x4 (package combo4): a 4x4 bitboard in a uint16
\* ------------------------------------------------------------------------

X == TRUE
o == FALSE

RECURSIVE SumBits(_)
SumBits(bits) ==
    IF bits = {} THEN 0
    ELSE LET b == CHOOSE x \in bits : TRUE
         IN  2 ^ b + SumBits(bits \ {b})

\* NewField4x4 creates a new Field4x4 from rows of four booleans; only the
\* bottom four rows count and fewer than four rows are placed at the bottom.
\* Rows are indexed 1..Len(field) here (0..len-1 in the source).
NewField4x4(field) ==
    LET startI == Len(field)
        kept   == {i \in 1..startI : i > startI - 4}
        row(i) == 3 - (startI - i)
    IN  SumBits({row(i) * 4 + (col - 1) :
                 <<i, col>> \in {c \in kept \X (1..4) : field[c[1]][c[2]]}})

\* isSet returns if the specified row and column is occupied, and false for
\* values out of bounds.
isSet(f, row, col) ==
    IF row >= 4 \/ col >= 4 \/ row < 0 \/ col < 0 THEN FALSE
    ELSE Bit(f, row * 4 + col)

\* Array2D returns a 2D boolean array represenation of the field.
Array2D(f) == [r \in 1..4 |-> [c \in 1..4 |-> isSet(f, r - 1, c - 1)]]

\* MirrorField4x4 reflects a Field4x4 across the y axis through the middle.
MirrorField4x4(f) ==
    LET array == Array2D(f)
    IN  NewField4x4([r \in 1..4 |->
            <<array[r][4], array[r][3], array[r][2], array[r][1]>>])

\* Common Field4x4s used to start a 4 wide combo.
LeftI == 28672
RightI == 57344
LeftZ == 12544

\* ------------------------------------------------------------------------
\* Move catalogue (package combo4): AllContinuousMoves
\* ------------------------------------------------------------------------

Move(start, end, piece) == [Start |-> start, End |-> end, Piece |-> piece]

\* Moves appended for the start field assigned at line 1033.
movesFrom1 ==
    LET start == NewField4x4(<< <<X,X,o,o>>, <<X,o,o,o>> >>)
    IN  << Move(start, start, I),
          Move(start, NewField4x4(<< <<o,o,o,X>>, <<X,o,o,X>> >>), T),
          Move(start, NewField4x4(<< <<X,X,X,o>> >>), T),
          Move(start, NewField4x4(<< <<X,X,o,X>> >>), L),
          Move(start, NewField4x4(<< <<X,X,X,o>> >>), S),
          Move(start, NewField4x4(<< <<o,o,X,o>>, <<X,o,o,X>> >>), S),
          Move(start, NewField4x4(<< <<o,o,o,X>>, <<X,o,X,o>> >>), Z),
          Move(start, NewField4x4(<< <<o,X,X,o>>, <<X,o,o,o>> >>), Z),
          Move(start, NewField4x4(<< <<X,o,X,X>> >>), O) >>

\* Moves appended for the start field assigned at line 1103.
movesFrom2 ==
    LET start == NewField4x4(<< <<X,o,o,o>>, <<X,o,o,X>> >>)
    IN  << Move(start, start, I),
          Move(start, NewField4x4(<< <<X,o,X,X>> >>), T),
          Move(start, NewField4x4(<< <<o,o,X,o>>, <<X,o,o,X>> >>), T),
          Move(start, NewField4x4(<< <<o,o,o,X>>, <<X,o,o,X>> >>), L),
          Move(start, NewField4x4(<< <<X,X,o,X>> >>), L),
          Move(start, NewField4x4(<< <<o,X,o,o>>, <<X,X,o,o>> >>), L),
          Move(start, NewField4x4(<< <<o,X,o,o>>, <<X,o,o,X>> >>), J),
          Move(start, NewField4x4(<< <<X,o,X,X>> >>), S),
          Move(start, NewField4x4(<< <<X,X,X,o>> >>), O) >>

\* Moves appended for the start field assigned at line 1173.
movesFrom3 ==
    LET start == NewField4x4(<< <<X,o,o,o>>, <<X,X,o,o>> >>)
    IN  << Move(start, start, I),
          Move(start, NewField4x4(<< <<X,X,X,o>> >>), T),
          Move(start, NewField4x4(<< <<o,o,o,X>>, <<X,X,o,o>> >>), L),
          Move(start, NewField4x4(<< <<o,o,o,X>>, <<X,o,o,X>> >>), J),
          Move(start, NewField4x4(<< <<X,X,o,X>> >>), J),
          Move(start, NewField4x4(<< <<o,X,o,o>>, <<X,X,o,o>> >>), J),
          Move(start, NewField4x4(<< <<X,X,X,o>> >>), Z),
          Move(start, NewField4x4(<< <<X,o,X,X>> >>), O) >>

\* Moves appended for the start field assigned at line 1235.
movesFrom4 ==
    LET start == NewField4x4(<< <<X,X,X,o>> >>)
    IN  << Move(start, start, I),
          Move(start, NewField4x4(<< <<o,o,o,X>>, <<o,o,X,X>> >>), T),
          Move(start, NewField4x4(<< <<o,o,X,X>>, <<o,o,o,X>> >>), L),
          Move(start, NewField4x4(<< <<o,X,X,X>> >>), J),
          Move(start, NewField4x4(<< <<o,o,X,o>>, <<o,o,X,X>> >>), S),
          Move(start, NewField4x4(<< <<o,o,o,X>>, <<o,o,o,X>>, <<o,o,o,X>> >>), I) >>

\* Moves appended for the start field assigned at line 1285.
movesFrom5 ==
    LET start == NewField4x4(<< <<X,o,o,o>>, <<X,o,o,o>>, <<X,o,o,o>> >>)
    IN  << Move(start, start, I),
          Move(start, NewField4x4(<< <<X,o,o,o>>, <<X,o,X,o>> >>), T),
          Move(start, NewField4x4(<< <<X,o,o,o>>, <<X,o,o,X>> >>), L),
          Move(start, NewField4x4(<< <<X,o,o,o>>, <<X,X,o,o>> >>), L),
          Move(start, NewField4x4(<< <<X,o,o,o>>, <<X,o,o,X>> >>), J),
          Move(start, NewField4x4(<< <<X,o,o,o>>, <<X,X,o,o>> >>), J) >>

\* Moves appended for the start field assigned at line 1337.
movesFrom6 ==
    LET start == NewField4x4(<< <<X,X,o,X>> >>)
    IN  << Move(start, start, I),
          Move(start, NewField4x4(<< <<o,X,X,X>> >>), T),
          Move(start, NewField4x4(<< <<o,o,X,o>>, <<o,o,X,X>> >>), T),
          Move(start, NewField4x4(<< <<X,X,X,o>> >>), J),
          Move(start, NewField4x4(<< <<o,o,X,X>>, <<o,o,X,o>> >>), J),
          Move(start, NewField4x4(<< <<o,o,o,X>>, <<o,o,X,X>> >>), Z) >>

\* Moves appended for the start field assigned at line 1385.
movesFrom7 ==
    LET start == NewField4x4(<< <<o,o,o,X>>, <<X,X,o,o>> >>)
    IN  << Move(start, start, I),
          Move(start, NewField4x4(<< <<o,X,o,o>>, <<X,X,o,o>> >>), T),
          Move(start, NewField4x4(<< <<X,o,o,o>>, <<X,X,o,o>> >>), J),
          Move(start, NewField4x4(<< <<X,X,X,o>> >>), J),
          Move(start, NewField4x4(<< <<o,X,X,X>> >>), Z) >>

\* Moves appended for the start field assigned at line 1424.
movesFrom8 ==
    LET start == NewField4x4(<< <<X,X,o,o>>, <<o,X,o,o>> >>)
    IN  << Move(start, start, I),
          Move(start, NewField4x4(<< <<o,o,o,X>>, <<o,X,o,X>> >>), T),
          Move(start, NewField4x4(<< <<o,o,o,X>>, <<o,X,X,o>> >>), Z),
          Move(start, NewField4x4(<< <<o,X,X,X>> >>), O) >>

\* Moves appended for the start field assigned at line 1458.
movesFrom9 ==
    LET start == NewField4x4(<< <<X,o,o,o>>, <<X,o,X,o>> >>)
    IN  << Move(start, start, I),
          Move(start, NewField4x4(<< <<X,X,X,o>> >>), L),
          Move(start, NewField4x4(<< <<o,o,o,X>>, <<X,o,X,o>> >>), L),
          Move(start, NewField4x4(<< <<X,o,X,X>> >>), J) >>

\* Moves appended for the start field assigned at line 1491.
movesFrom10 ==
    LET start == NewField4x4(<< <<o,X,o,o>>, <<X,X,o,o>> >>)
    IN  << Move(start, start, I),
          Move(start, NewField4x4(<< <<o,o,o,X>>, <<o,X,o,X>> >>), J),
          Move(start, NewField4x4(<< <<o,X,X,X>> >>), O) >>

\* Moves appended for the start field assigned at line 1517.
movesFrom11 ==
    LET start == NewField4x4(<< <<X,o,o,o>>, <<o,X,X,o>> >>)
    IN  << Move(start, start, I),
          Move(start, NewField4x4(<< <<o,o,o,X>>, <<o,X,X,o>> >>), L),
          Move(start, NewField4x4(<< <<o,X,X,X>> >>), J) >>

\* Moves appended for the start field assigned at line 1543.
movesFrom12 ==
    LET start == NewField4x4(<< <<X,o,o,o>>, <<o,X,o,X>> >>)
    IN  << Move(start, start, I),
          Move(start, NewField4x4(<< <<o,X,X,X>> >>), T),
          Move(start, NewField4x4(<< <<o,o,o,X>>, <<o,X,o,X>> >>), L) >>

\* Moves appended for the start field assigned at line 1569.
movesFrom13 ==
    LET start == NewField4x4(<< <<o,X,o,o>>, <<X,o,o,X>> >>)
    IN  << Move(start, start, I),
          Move(start, NewField4x4(<< <<o,X,X,X>> >>), S) >>

\* Moves appended for the start field assigned at line 1587.
movesFrom14 ==
    LET start == NewField4x4(<< <<o,X,X,o>>, <<X,o,o,o>> >>)
    IN  << Move(start, start, I),
          Move(start, NewField4x4(<< <<o,X,X,X>> >>), L) >>
\* The moves excluding reflection, in the order the source appends them.
withoutReflect ==
    movesFrom1 \o movesFrom2 \o movesFrom3 \o movesFrom4 \o movesFrom5 \o
    movesFrom6 \o movesFrom7 \o movesFrom8 \o movesFrom9 \o movesFrom10 \o
    movesFrom11 \o movesFrom12 \o movesFrom13 \o movesFrom14

\* AllContinuousMoves returns all moves that result in further play: the
\* unreflected moves followed by the reflection of each of them.
AllContinuousMoves ==
    withoutReflect \o
    [i \in DOMAIN withoutReflect |->
        Move(MirrorField4x4(withoutReflect[i].Start),
             MirrorField4x4(withoutReflect[i].End),
             Mirror(withoutReflect[i].Piece))]

\* ------------------------------------------------------------------------
\* NFA (package combo4)
\* ------------------------------------------------------------------------

\* State represents the state of the playing field, not including the queue.
State(field, hold, swapRestricted) ==
    [Field |-> field, Hold |-> hold, SwapRestricted |-> swapRestricted]

\* The nil *State.
Nil == [nil |-> TRUE]

\* The elements of a slice, as a set.
Range(list) == {list[i] : i \in DOMAIN list}

\* A list with its elements stored, as make and append build it.
Slice(list) == <<>> \o list

\* A map with its entries stored, as the assignments to it build it.
Map(entries) == entries @@ entries

\* NewNFA, grouping the moves by Start and Piece: moves[field][piece], the
\* End fields in the order of the list.
movesOf(movesList, field, piece) ==
    LET sel == SelectSeq(movesList,
                   LAMBDA m : m.Start = field /\ m.Piece = piece)
    IN  Slice([i \in DOMAIN sel |-> sel[i].End])

\* Transitions from no Hold piece that only play the piece.
fromNoHoldOnlyPlays(movesList, field, piece) ==
    LET ends == movesOf(movesList, field, piece)
    IN  Slice([i \in DOMAIN ends |-> State(ends[i], EmptyPiece, FALSE)])

\* NewNFA, the transitions from no Hold piece: holding the piece, then
\* playing the piece.
fromNoHold(movesList, field, piece) ==
    LET ends == movesOf(movesList, field, piece)
    IN  <<State(field, piece, TRUE)>> \o
        [i \in DOMAIN ends |-> State(ends[i], EmptyPiece, FALSE)]

\* Transitions from a SwapRestricted state that also swap the Hold piece.
fromRestrictedSwapping(movesList, field, hold, piece) ==
    LET ends == movesOf(movesList, field, piece)
        swapEnds == movesOf(movesList, field, hold)
    IN  [i \in DOMAIN ends |-> State(ends[i], hold, FALSE)] \o
        [i \in DOMAIN swapEnds |-> State(swapEnds[i], piece, FALSE)]

\* NewNFA, the transitions from a SwapRestricted state: playing the piece;
\* the state is no longer SwapRestricted.
fromRestricted(movesList, field, hold, piece) ==
    LET ends == movesOf(movesList, field, piece)
    IN  Slice([i \in DOMAIN ends |-> State(ends[i], hold, FALSE)])

\* Transitions from a swappable Hold piece whose swap leaves no Hold piece.
fromHoldDropping(movesList, field, hold, piece) ==
    LET ends == movesOf(movesList, field, piece)
        swapEnds == movesOf(movesList, field, hold)
    IN  [i \in DOMAIN ends |-> State(ends[i], hold, FALSE)] \o
        [i \in DOMAIN swapEnds |-> State(swapEnds[i], EmptyPiece, FALSE)]

\* NewNFA, the transitions from a state with a swappable Hold piece: those
\* that keep the Hold piece, then those that swap the Hold piece and play it.
fromHold(movesList, field, hold, piece) ==
    LET ends == movesOf(movesList, field, piece)
        swapEnds == movesOf(movesList, field, hold)
    IN  [i \in DOMAIN ends |-> State(ends[i], hold, FALSE)] \o
        [i \in DOMAIN swapEnds |-> State(swapEnds[i], piece, FALSE)]

\* NewNFA creates a new NFA: the transition table trans[piece][state], with
\* a list of next states for the three kinds of state of every field that
\* starts a move.
NewNFA(movesList) ==
    LET startFields == {movesList[i].Start : i \in DOMAIN movesList}
        keys == {State(f, EmptyPiece, FALSE) : f \in startFields}
                \cup {State(f, h, r) : f \in startFields, h \in Pieces,
                                      r \in BOOLEAN}
    IN  Map([piece \in Pieces |->
            Map([st \in keys |->
                IF st.Hold = EmptyPiece
                THEN fromNoHold(movesList, st.Field, piece)
                ELSE IF st.SwapRestricted
                THEN fromRestricted(movesList, st.Field, st.Hold, piece)
                ELSE fromHold(movesList, st.Field, st.Hold, piece)])])

\* The NFA every component shares: NewNFA(AllContinuousMoves()).
nfa == NewNFA(AllContinuousMoves)

\* The list trans[piece][state] of the NFA; a missing map entry (and the nil
\* map of the Empty piece) reads as the empty list.
trans(piece, st) ==
    IF piece \in DOMAIN nfa /\ st \in DOMAIN nfa[piece]
    THEN nfa[piece][st]
    ELSE <<>>

\* NextStates returns the possible next states.
NextStates(initial, piece) == trans(piece, initial)

\* States returns the set of States represented in the NFA.
States ==
    UNION {DOMAIN nfa[piece] \cup
           UNION {Range(nfa[piece][st]) : st \in DOMAIN nfa[piece]} :
           piece \in DOMAIN nfa}

\* ------------------------------------------------------------------------
\* Bounds of the model
\* ------------------------------------------------------------------------

\* Longest preview handed to StartGame.
MaxPreview == 1
\* Most pieces the producer puts on the input channel when it sends any piece.
MaxInput == 2
\* Number of bags in a stream of the 7 bag randomizer.
MaxBags == 2
\* Longest preview handed to StartGame with such a stream.
MaxStreamPreview == 7
\* Most states in the initial set of an EndStates call.
MaxInitial == 1
\* Most pieces handed to an EndStates call.
MaxPieces == 3

\* The fields a game starts from.
InitialFields == {LeftI, LeftZ}

\* The pieces of a game whose producer sends any piece: T, J and S have
\* moves from LeftI, Z and O have none; S has none from LeftZ.
GamePieces == {T, J, S, Z, O}

\* The capacities of the input channel: unbuffered, and the one the callers
\* make.
InputCaps == {0, 1}

\* All sequences over set of length at most n.
SeqsUpTo(set, n) == UNION {[1..k -> set] : k \in 0..n}

\* ------------------------------------------------------------------------
\* The variables of the parts a specification does not run
\* ------------------------------------------------------------------------

DriverUnused ==
    /\ pc = "unused" /\ state = Nil /\ current = EmptyPiece /\ next = <<>>
    /\ bag = 0 /\ input = <<>> /\ inputCap = 0 /\ inputClosed = FALSE
    /\ sent = <<>> /\ stream = <<>> /\ output = <<>> /\ outputCap = 0
    /\ outputClosed = FALSE /\ consumed = 0 /\ lastInput = EmptyPiece
    /\ emitted = 0 /\ arrival = <<>> /\ lastState = Nil /\ lastEmit = <<>>
    /\ drawn = {} /\ legal = TRUE /\ impossible = FALSE
    /\ nilEmitted = FALSE

EndStatesUnused ==
    /\ esPc = "unused" /\ esInitial = {} /\ esPieces = <<>> /\ esCur = {}
    /\ esNext = {} /\ esIdx = 0 /\ esResult = <<>>

TrajectoryUnused ==
    /\ tState = Nil /\ tPrev = Nil /\ tPiece = EmptyPiece

BuildUnused ==
    /\ building = <<>> /\ buildPc = "unused" /\ launcher = <<>>
    /\ bagWorker = <<>> /\ stableCh = <<>> /\ maxConcurrency = 0 /\ wg = 0

MDPUnused ==
    /\ BuildUnused
    /\ game = <<>> /\ value = <<>> /\ policy = <<>> /\ mdpPc = "unused"
    /\ caller = "" /\ valCurrent = <<>> /\ worker = <<>> /\ pending = {}
    /\ changed = 0 /\ calls = 0 /\ last = <<>> /\ settled = FALSE

NoResult == [none |-> TRUE]

CallsUnused ==
    /\ call = <<>> /\ result = NoResult /\ scores = <<>> /\ finished = <<>>
    /\ heap = <<>> /\ roots = <<>>

RestUnused == MDPUnused /\ CallsUnused

\* ------------------------------------------------------------------------
\* NFA.EndStates
\* ------------------------------------------------------------------------

\* The states an EndStates call starts from: the three starting fields with
\* no hold piece, and LeftI with the hold piece O, swap restricted or not.
InitialPool ==
    {State(LeftI, EmptyPiece, FALSE), State(RightI, EmptyPiece, FALSE),
     State(LeftZ, EmptyPiece, FALSE), State(LeftI, O, TRUE),
     State(LeftI, O, FALSE)}

\* The subsets of pool with at most n elements.
RECURSIVE SetsUpTo(_, _)
SetsUpTo(pool, n) ==
    IF n = 0 THEN {{}}
    ELSE LET smaller == SetsUpTo(pool, n - 1)
         IN  smaller \cup {set \cup {st} : set \in smaller, st \in pool}

\* The call EndStates(initial, pieces) up to its loop: cur is a copy of
\* initial and next is empty.
EndStatesCall(initial, pieces) ==
    /\ esPc = "loop"
    /\ esInitial = initial
    /\ esPieces = pieces
    /\ esCur = initial
    /\ esNext = {}
    /\ esIdx = 0
    /\ esResult = <<>>

InitEndStates ==
    /\ \E initial \in SetsUpTo(InitialPool, MaxInitial),
          pieces \in SeqsUpTo(Pieces, MaxPieces) :
            EndStatesCall(initial, pieces)
    /\ DriverUnused
    /\ TrajectoryUnused
    /\ RestUnused

\* The buffer that becomes next after the swap, with its keys left in it.
NotCleared(buffer) == buffer

\* The buffer that becomes next after the swap, with all its keys deleted.
Cleared(buffer) == {}

\* One iteration of the loop over pieces: the next states of all current
\* states are added to next; with none, the call returns cur and the index;
\* otherwise the buffers are swapped and the new next is cleared.
EndStatesStep ==
    /\ esPc = "loop"
    /\ esIdx < Len(esPieces)
    /\ LET piece == esPieces[esIdx + 1]
           added == esNext \cup
                    UNION {Range(trans(piece, curState)) : curState \in esCur}
       IN  IF added = {}
           THEN /\ esPc' = "done"
                /\ esResult' = <<esCur, esIdx>>
                /\ esNext' = added
                /\ UNCHANGED <<esCur, esIdx>>
           ELSE /\ esCur' = added
                /\ esNext' = Cleared(esCur)
                /\ esIdx' = esIdx + 1
                /\ UNCHANGED <<esPc, esResult>>
    /\ UNCHANGED <<esInitial, esPieces, driverVars, trajVars, restVars>>

\* All pieces are consumed: the call returns cur and len(pieces).
EndStatesReturn ==
    /\ esPc = "loop"
    /\ esIdx = Len(esPieces)
    /\ esPc' = "done"
    /\ esResult' = <<esCur, Len(esPieces)>>
    /\ UNCHANGED <<esInitial, esPieces, esCur, esNext, esIdx,
                   driverVars, trajVars, restVars>>

NextEndStates == EndStatesStep \/ EndStatesReturn

SpecEndStates == InitEndStates /\ [][NextEndStates]_vars

\* ------------------------------------------------------------------------
\* Trajectories of the NFA
\* ------------------------------------------------------------------------

InitTrajectory ==
    /\ tState \in States
    /\ tPrev = Nil
    /\ tPiece = EmptyPiece
    /\ DriverUnused
    /\ EndStatesUnused
    /\ RestUnused

\* The trajectory takes one transition of the NFA on some piece.
TrajectoryStep ==
    /\ \E piece \in Pieces :
        /\ tState' \in Range(NextStates(tState, piece))
        /\ tPiece' = piece
    /\ tPrev' = tState
    /\ UNCHANGED <<driverVars, esVars, restVars>>

NextTrajectory == TrajectoryStep

SpecTrajectory == InitTrajectory /\ [][NextTrajectory]_vars

\* ------------------------------------------------------------------------
\* Policy (package bot)
\* ------------------------------------------------------------------------

\* scorePolicy.NextState returns the "best" possible next state or nil if
\* there are no possible moves. The scorer is an input of the policy: with
\* the scores left open, the best choice is any of the choices. The result
\* is the set of values the call can return.
PolicyNextState(initial, cur, preview, endBagUsed) ==
    LET choices == NextStates(initial, cur)
    IN  IF Len(choices) = 0 THEN {Nil}
        ELSE IF Len(choices) = 1 THEN {choices[1]}
        ELSE Range(choices)

\* ------------------------------------------------------------------------
\* The 7 bag randomizer the input is meant to follow
\* ------------------------------------------------------------------------

\* The bag after drawing p: a complete bag is replaced by a new one first.
Draw(b, p) == (IF Cardinality(b) = 7 THEN {} ELSE b) \cup {p}

\* Whether the randomizer can draw p from bag b.
Drawable(b, p) == Cardinality(b) = 7 \/ p \notin b

RECURSIVE DrawAll(_, _)
DrawAll(b, pieces) ==
    IF pieces = <<>> THEN b
    ELSE DrawAll(Draw(b, Head(pieces)), Tail(pieces))

RECURSIVE AllDrawable(_, _)
AllDrawable(b, pieces) ==
    IF pieces = <<>> THEN TRUE
    ELSE /\ Drawable(b, Head(pieces))
         /\ AllDrawable(Draw(b, Head(pieces)), Tail(pieces))

\* ------------------------------------------------------------------------
\* Game driver (package bot): StartGame
\* ------------------------------------------------------------------------

\* The bag StartGame computes from the first piece and the preview.
RECURSIVE InitialBag(_, _)
InitialBag(b, preview) ==
    IF preview = <<>> THEN b
    ELSE LET added == Add(b, Head(preview))
         IN  InitialBag(IF PieceSetLen(added) = 7 THEN 0 ELSE added,
                        Tail(preview))

\* StartGame up to the start of its goroutine, called with the pieces
\* already queued on the input channel.
StartGame(initial, first, preview, queued, cap, script) ==
    /\ stream = script
    /\ pc = "first"
    /\ state = State(initial, EmptyPiece, FALSE)
    /\ current = first
    /\ next = preview
    /\ bag = InitialBag(PieceSetOf(first), preview)
    /\ input = queued
    /\ inputCap = cap
    /\ inputClosed = FALSE
    /\ sent = queued
    /\ output = <<>>
    /\ outputCap = Len(queued)
    /\ outputClosed = FALSE
    /\ consumed = 0
    /\ lastInput = EmptyPiece
    /\ emitted = 0
    /\ arrival = <<first>> \o preview
    /\ lastState = State(initial, EmptyPiece, FALSE)
    /\ lastEmit = <<>>
    /\ drawn = DrawAll({}, <<first>> \o preview)
    /\ legal = AllDrawable({}, <<first>> \o preview)
    /\ impossible = FALSE
    /\ nilEmitted = FALSE

\* A game from one of fields whose producer sends any piece.
FreeGame(fields) ==
    \E initial \in fields, first \in GamePieces,
       preview \in SeqsUpTo(GamePieces, MaxPreview), cap \in InputCaps :
        \E queued \in SeqsUpTo(GamePieces, cap) :
            StartGame(initial, first, preview, queued, cap, <<>>)

\* Orders in which the randomizer deals one bag.
BagOrders == << <<T, L, J, S, Z, O, I>>, <<S, T, O, J, I, Z, L>> >>

RECURSIVE Concat(_)
Concat(lists) ==
    IF lists = <<>> THEN <<>> ELSE Head(lists) \o Concat(Tail(lists))

\* The streams of MaxBags bags dealt in these orders.
BagStreams ==
    {Concat([k \in 1..MaxBags |-> BagOrders[c[k]]]) :
        c \in [1..MaxBags -> DOMAIN BagOrders]}

\* A game whose pieces all come from one stream of the randomizer.
StreamGame ==
    \E initial \in InitialFields, script \in BagStreams,
       n \in 0..MaxStreamPreview, cap \in InputCaps :
        \E k \in 0..cap :
            StartGame(initial, script[1], SubSeq(script, 2, n + 1),
                      SubSeq(script, n + 2, n + 1 + k), cap, script)

Init ==
    /\ FreeGame(InitialFields) \/ StreamGame
    /\ EndStatesUnused
    /\ TrajectoryUnused
    /\ RestUnused

\* The games checked for progress: those from LeftI whose producer sends any
\* piece.
InitLive ==
    /\ FreeGame({LeftI})
    /\ EndStatesUnused
    /\ TrajectoryUnused
    /\ RestUnused

\* Output the first move: state := pol.NextState(*state, current, next, bag).
DriverFirst ==
    /\ pc = "first"
    /\ state' \in PolicyNextState(state, current, next, bag)
    /\ pc' = "send"
    /\ UNCHANGED <<current, next, bag, inputVars, outputVars, historyVars,
                   esVars, trajVars, restVars>>

\* output <- state: the send completes when the buffer has room or, on an
\* unbuffered channel, when the consumer receives. The emission is recorded
\* with what the driver had seen when it was computed.
DriverSend ==
    /\ pc = "send"
    /\ Len(output) < outputCap \/ outputCap = 0
    /\ output' = IF outputCap = 0 THEN output ELSE Append(output, state)
    /\ emitted' = emitted + 1
    /\ lastEmit' = <<[decision |-> state,
                      from |-> lastState,
                      piece |-> Head(arrival),
                      number |-> emitted + 1,
                      inputs |-> consumed,
                      answered |-> lastInput,
                      newest |-> IF Len(next) = 0 THEN current
                                 ELSE next[Len(next)],
                      afterNil |-> nilEmitted]>>
    /\ arrival' = IF state = Nil THEN arrival ELSE Tail(arrival)
    /\ lastState' = IF state = Nil THEN lastState ELSE state
    /\ nilEmitted' = (nilEmitted \/ state = Nil)
    /\ pc' = "recv"
    /\ UNCHANGED <<gameVars, inputVars, outputCap, outputClosed,
                   consumed, lastInput, drawn, legal, impossible,
                   esVars, trajVars, restVars>>

\* A shift that makes the newest piece current, whatever the preview holds.
ShiftCurrentNewest(nxt, p) == p

\* Shift next and the current piece: the new current piece.
ShiftCurrent(nxt, p) == IF Len(nxt) = 0 THEN p ELSE nxt[1]

\* A shift that overwrites the newest piece of the preview.
ShiftNextUnrotated(nxt, p) ==
    IF Len(nxt) = 0 THEN nxt ELSE Append(SubSeq(nxt, 1, Len(nxt) - 1), p)

\* Shift next and the current piece: the new preview.
ShiftNext(nxt, p) == IF Len(nxt) = 0 THEN nxt ELSE Append(Tail(nxt), p)

\* A bag update that never empties the bag.
ResetBagNever(b) == b

\* Update the bag: a bag of 7 pieces is emptied.
ResetBag(b) == IF PieceSetLen(b) = 7 THEN 0 ELSE b

\* A loop body after nil that continues without sending.
NilStepSilent(p) ==
    /\ pc' = "recv"
    /\ UNCHANGED <<gameVars, outputClosed>>

\* A loop body after nil that shifts the pieces before it sends nil.
NilStepAdvancing(p) ==
    /\ pc' = "send"
    /\ current' = ShiftCurrent(next, p)
    /\ next' = ShiftNext(next, p)
    /\ UNCHANGED <<state, bag, outputClosed>>

\* The loop body when the previous step produced nil: output <- nil;
\* continue.
NilStep(p) ==
    /\ pc' = "send"
    /\ UNCHANGED <<gameVars, outputClosed>>

\* The loop body otherwise, up to its send: shift, update the bag or panic
\* (the deferred close(output) runs), query the policy.
Step(p) ==
    /\ current' = ShiftCurrent(next, p)
    /\ next' = ShiftNext(next, p)
    /\ IF Contains(ResetBag(bag), p)
       THEN /\ pc' = "panic"
            /\ outputClosed' = TRUE
            /\ bag' = ResetBag(bag)
            /\ state' = state
       ELSE /\ pc' = "send"
            /\ outputClosed' = outputClosed
            /\ bag' = Add(ResetBag(bag), p)
            /\ state' \in PolicyNextState(state, ShiftCurrent(next, p),
                                          ShiftNext(next, p),
                                          Add(ResetBag(bag), p))

\* One iteration of "for p := range input" up to its send, for a received
\* p, with the record of what was received.
Receive(p) ==
    /\ consumed' = consumed + 1
    /\ lastInput' = p
    /\ drawn' = Draw(drawn, p)
    /\ legal' = (legal /\ Drawable(drawn, p))
    /\ impossible' = (legal /\ ~Drawable(drawn, p))
    /\ arrival' = IF state = Nil THEN arrival ELSE Append(arrival, p)
    /\ UNCHANGED <<emitted, lastState, lastEmit, nilEmitted, output,
                   outputCap>>
    /\ IF state = Nil THEN NilStep(p) ELSE Step(p)

\* The driver receives the next piece from the buffer of the input channel.
DriverRecv ==
    /\ pc = "recv"
    /\ input # <<>>
    /\ Receive(Head(input))
    /\ input' = Tail(input)
    /\ UNCHANGED <<inputCap, inputClosed, sent, stream, esVars, trajVars, restVars>>

\* A loop that ends as soon as the input channel is empty.
DriverCloseEarly ==
    /\ pc = "recv"
    /\ input = <<>>
    /\ pc' = "done"
    /\ outputClosed' = TRUE
    /\ UNCHANGED <<gameVars, inputVars, output, outputCap, historyVars,
                   esVars, trajVars, restVars>>

\* The input channel is closed and drained: the loop ends and the deferred
\* close(output) runs.
DriverClose ==
    /\ pc = "recv"
    /\ input = <<>>
    /\ inputClosed
    /\ pc' = "done"
    /\ outputClosed' = TRUE
    /\ UNCHANGED <<gameVars, inputVars, output, outputCap, historyVars,
                   esVars, trajVars, restVars>>

\* The pieces the producer can send next: any piece, or the piece of its
\* stream that follows the first piece, the preview and the pieces sent.
ProducerPieces ==
    IF stream = <<>>
    THEN IF Len(sent) < MaxInput THEN GamePieces ELSE {}
    ELSE IF Len(next) + Len(sent) + 2 <= Len(stream)
         THEN {stream[Len(next) + Len(sent) + 2]}
         ELSE {}

\* The producer puts a piece on the input channel: into its buffer, or, on
\* an unbuffered channel, directly into the hands of the waiting driver.
ProducerSend ==
    /\ pc # "panic"
    /\ ~inputClosed
    /\ UNCHANGED <<inputCap, inputClosed, stream, esVars, trajVars, restVars>>
    /\ \E p \in ProducerPieces :
        /\ sent' = Append(sent, p)
        /\ IF inputCap = 0
           THEN /\ pc = "recv"
                /\ Receive(p)
                /\ input' = input
           ELSE /\ Len(input) < inputCap
                /\ input' = Append(input, p)
                /\ UNCHANGED <<pc, gameVars, outputVars, historyVars>>

\* The producer closes the input channel.
ProducerClose ==
    /\ pc # "panic"
    /\ ~inputClosed
    /\ inputClosed' = TRUE
    /\ UNCHANGED <<pc, gameVars, input, inputCap, sent, stream, outputVars,
                   historyVars, esVars, trajVars, restVars>>

\* The consumer receives a decision from the buffer of the output channel.
ConsumerRecv ==
    /\ pc # "panic"
    /\ output # <<>>
    /\ output' = Tail(output)
    /\ UNCHANGED <<pc, gameVars, inputVars, outputCap, outputClosed,
                   historyVars, esVars, trajVars, restVars>>

Next ==
    \/ DriverFirst
    \/ DriverSend
    \/ DriverRecv
    \/ DriverClose
    \/ ProducerSend
    \/ ProducerClose
    \/ ConsumerRecv

Spec == Init /\ [][Next]_vars

\* The driver's goroutine is scheduled, and the consumer keeps receiving.
Fairness ==
    /\ WF_vars(DriverFirst)
    /\ WF_vars(DriverSend)
    /\ WF_vars(DriverRecv)
    /\ WF_vars(DriverClose)
    /\ WF_vars(ConsumerRecv)

SpecLive == InitLive /\ [][Next]_vars /\ Fairness


\* ------------------------------------------------------------------------
\* MDP (combo4/bot/mdp.go): value iteration and policy iteration
\* ------------------------------------------------------------------------

\* The number of shard workers of UpdateValues.
concurrency == 8

\* Values are followed up to MaxValue; at most MaxCalls methods are called.
MaxValue == 8
MaxCalls == 2

\* The stable game states, the keys of m.value.  Absent stands for a
\* GameState that is not a key of m.value.
GameStates == 1..3
Absent == 0

\* A game gives, for each stable game state and each of its choices (the
\* NFA's next states, in the order NextStates lists them), the game states
\* that m.possibilities returns: one per piece the bag can deal next.
Game(a1, a2, b2, c1) ==
    [g \in GameStates |->
        CASE g = 1 -> <<a1, a2>>
          [] g = 2 -> <<<<Absent>>, b2>>
          [] g = 3 -> <<c1>>]

Games ==
    {Game(a1, a2, b2, c1) :
        a1 \in {<<3>>, <<Absent>>, <<1, 1, Absent>>},
        a2 \in {<<2>>, <<2, Absent>>, <<2, 2>>},
        b2 \in {<<3>>, <<1, Absent>>, <<3, Absent>>},
        c1 \in {<<Absent>>, <<Absent, 3>>, <<1, 2>>}}

choicesOf(gm, g) == 1..Len(gm[g])

possibilities(gm, g, choice) == gm[g][choice]

\* The sum of the values of a list of game states; a game state that is not
\* in the map counts 0.
RECURSIVE totalVal(_, _)
totalVal(v, poss) ==
    IF poss = <<>> THEN 0
    ELSE (IF Head(poss) = Absent THEN 0 ELSE v[Head(poss)])
         + totalVal(v, Tail(poss))

\* Mutant of NewVal: the piece just played is not counted.
NewValWithoutOne(total, n) == total \div n

\* Mutant of NewVal: the sum is not divided by the number of possibilities.
NewValUndivided(total, n) == 1 + total

\* 1 + totalVal/len(possibilities), the division truncating.
NewVal(total, n) == 1 + (total \div n)

\* Mutant of calcValue: the estimate of a choice is one too large.
calcValueOverly(gm, v, g, choice) ==
    1 + NewVal(totalVal(v, possibilities(gm, g, choice)),
               Len(possibilities(gm, g, choice)))

calcValue(gm, v, g, choice) ==
    NewVal(totalVal(v, possibilities(gm, g, choice)),
           Len(possibilities(gm, g, choice)))

\* NewMDP: every stable game state has value 1; initPolicy takes the
\* scorer's choice, which is one of the choices.
NewMDP(gm, pol) ==
    /\ game = gm
    /\ value = [g \in GameStates |-> 1]
    /\ policy = pol
    /\ mdpPc = "idle" /\ caller = ""
    /\ valCurrent = [g \in GameStates |-> 1]
    /\ worker = <<>> /\ pending = {} /\ changed = 0
    /\ calls = 0
    /\ last = [call |-> "NewMDP", changes |-> 0, before |-> "",
               afterUpdate |-> FALSE]
    /\ settled = FALSE

InitMDP ==
    /\ \E gm \in Games :
           \E pol \in {f \in [GameStates -> 1..2] :
                           \A g \in GameStates : f[g] \in choicesOf(gm, g)} :
               NewMDP(gm, pol)
    /\ DriverUnused /\ EndStatesUnused /\ TrajectoryUnused /\ CallsUnused
    /\ BuildUnused

notMdpVars == <<driverVars, esVars, trajVars, callVars, buildVars>>

\* --- UpdateValues ---

\* vals, the cells in the order the map was ranged over.  Every shard holds
\* at most one cell when there are fewer cells than workers, so the order
\* only renames the workers.
vals == [i \in 1..Cardinality(GameStates) |-> i]

\* The shard of worker w: vals[start:end].
Shard(w) ==
    SubSeq(vals, ((w * Len(vals)) \div concurrency) + 1,
                 ((w + 1) * Len(vals)) \div concurrency)

\* The workers that have a cell; a worker with an empty range only reports
\* 0 changes.
Workers == {w \in 0..(concurrency - 1) : Shard(w) # <<>>}

\* The cell's dependencies: the possibilities that are keys of the map.
dependencies(gm, pol, g) ==
    SelectSeq(possibilities(gm, g, pol[g]), LAMBDA d : d # Absent)

FreshWorkers ==
    [w \in Workers |-> [idx |-> 1, dep |-> 0, total |-> 0, changes |-> 0]]

\* The cells are created from m.value and the first pass starts.
StartUpdateValues(by) ==
    /\ mdpPc' = "UpdateValues" /\ caller' = by
    /\ valCurrent' = value
    /\ worker' = FreshWorkers
    /\ pending' = {} /\ changed' = 0

\* A worker reads one dependency of its current cell: totalVal += *d.
WorkerRead(w) ==
    /\ mdpPc = "UpdateValues"
    /\ worker[w].idx <= Len(Shard(w))
    /\ LET c == Shard(w)[worker[w].idx]
           deps == dependencies(game, policy, c)
       IN  /\ worker[w].dep < Len(deps)
           /\ worker' = [worker EXCEPT
                  ![w].dep = @ + 1,
                  ![w].total = @ + valCurrent[deps[worker[w].dep + 1]]]
    /\ UNCHANGED <<game, value, policy, mdpPc, caller, valCurrent, pending,
                   changed, calls, last, settled, notMdpVars>>

\* A worker computes the new value of its current cell and stores it when
\* it differs from the value the cell has.
WorkerWrite(w) ==
    /\ mdpPc = "UpdateValues"
    /\ worker[w].idx <= Len(Shard(w))
    /\ LET c == Shard(w)[worker[w].idx]
           deps == dependencies(game, policy, c)
           newVal == NewVal(worker[w].total,
                            Len(possibilities(game, c, policy[c])))
       IN  /\ worker[w].dep = Len(deps)
           /\ newVal <= MaxValue
           /\ valCurrent' = [valCurrent EXCEPT ![c] = newVal]
           /\ worker' = [worker EXCEPT
                  ![w].idx = @ + 1, ![w].dep = 0, ![w].total = 0,
                  ![w].changes = IF newVal # valCurrent[c] THEN @ + 1 ELSE @]
    /\ UNCHANGED <<game, value, policy, mdpPc, caller, pending, changed,
                   calls, last, settled, notMdpVars>>

RECURSIVE SumOver(_, _)
SumOver(f, set) ==
    IF set = {} THEN 0
    ELSE LET x == CHOOSE y \in set : TRUE
         IN  f[x] + SumOver(f, set \ {x})

\* All workers have reported: the changes of the pass.
PassDone == \A w \in Workers : worker[w].idx > Len(Shard(w))
PassChanges == SumOver([w \in Workers |-> worker[w].changes], Workers)

\* Mutant of Converged: one pass is enough.
ConvergedAfterOnePass(changes) == TRUE

\* if changes == 0 { break }
Converged(changes) == changes = 0

\* A pass had changes: the next pass starts.
PassAgain ==
    /\ mdpPc = "UpdateValues"
    /\ PassDone
    /\ ~Converged(PassChanges)
    /\ worker' = FreshWorkers
    /\ UNCHANGED <<game, value, policy, mdpPc, caller, valCurrent, pending,
                   changed, calls, last, settled, notMdpVars>>

\* The record of a call that returns.
Returned(name, n) ==
    [call |-> name, changes |-> n, before |-> last.call,
     afterUpdate |-> settled]

\* UpdatePolicy starts: the range over m.policy has visited nothing yet.
StartUpdatePolicy(by) ==
    /\ mdpPc' = "UpdatePolicy" /\ caller' = by
    /\ pending' = GameStates /\ changed' = 0
    /\ worker' = <<>>

\* The method returns to the caller of the MDP.
BackToCaller(after) ==
    /\ mdpPc' = "idle" /\ caller' = ""
    /\ pending' = {} /\ changed' = 0 /\ worker' = <<>>
    /\ settled' = after

\* A pass had no change: the values are written back to the map and
\* UpdateValues returns the number of values that differ.  Update goes on
\* with UpdatePolicy when there were changes and returns nil otherwise.
UpdateValuesReturn ==
    /\ mdpPc = "UpdateValues"
    /\ PassDone
    /\ Converged(PassChanges)
    /\ LET totalChanges ==
               Cardinality({g \in GameStates : value[g] # valCurrent[g]})
       IN  /\ value' = valCurrent
           /\ last' = Returned("UpdateValues", totalChanges)
           /\ IF caller = "Update" /\ totalChanges # 0
              THEN StartUpdatePolicy("Update") /\ UNCHANGED settled
              ELSE BackToCaller(IF caller = "Update" THEN TRUE
                                ELSE settled /\ totalChanges = 0)
    /\ UNCHANGED <<game, policy, valCurrent, calls, notMdpVars>>

\* --- UpdatePolicy ---

\* Mutant of bestOf: a choice that ties with the best one replaces it.
RECURSIVE bestOfOnTies(_, _, _, _, _, _)
bestOfOnTies(gm, v, g, rest, bestChoice, bestVal) ==
    IF rest = <<>> THEN <<bestChoice, bestVal>>
    ELSE LET val == calcValue(gm, v, g, Head(rest))
         IN  IF val >= bestVal
             THEN bestOfOnTies(gm, v, g, Tail(rest), Head(rest), val)
             ELSE bestOfOnTies(gm, v, g, Tail(rest), bestChoice, bestVal)

\* The best choice of a game state: the current choice unless another
\* choice has a strictly larger value; the first of the largest wins.
RECURSIVE bestOf(_, _, _, _, _, _)
bestOf(gm, v, g, rest, bestChoice, bestVal) ==
    IF rest = <<>> THEN <<bestChoice, bestVal>>
    ELSE LET val == calcValue(gm, v, g, Head(rest))
         IN  IF val > bestVal
             THEN bestOf(gm, v, g, Tail(rest), Head(rest), val)
             ELSE bestOf(gm, v, g, Tail(rest), bestChoice, bestVal)

best(gm, v, pol, g) ==
    bestOf(gm, v, g,
           SelectSeq([i \in choicesOf(gm, g) |-> i], LAMBDA c : c # pol[g]),
           pol[g], calcValue(gm, v, g, pol[g]))

\* One iteration of the range over m.policy, in the map's order.
UpdatePolicyStep(g) ==
    /\ mdpPc = "UpdatePolicy"
    /\ g \in pending
    /\ LET b == best(game, value, policy, g)
       IN  IF b[1] # policy[g]
           THEN /\ b[2] <= MaxValue
                /\ changed' = changed + 1
                /\ policy' = [policy EXCEPT ![g] = b[1]]
                /\ value' = [value EXCEPT ![g] = b[2]]
           ELSE UNCHANGED <<changed, policy, value>>
    /\ pending' = pending \ {g}
    /\ UNCHANGED <<game, mdpPc, caller, valCurrent, worker, calls, last,
                   settled, notMdpVars>>

\* UpdatePolicy returns the number of changes.  Update returns nil when
\* there was none and goes on with UpdateValues otherwise.
UpdatePolicyReturn ==
    /\ mdpPc = "UpdatePolicy"
    /\ pending = {}
    /\ last' = Returned("UpdatePolicy", changed)
    /\ IF caller = "Update" /\ changed # 0
       THEN StartUpdateValues("Update") /\ UNCHANGED settled
       ELSE /\ BackToCaller(IF caller = "Update" THEN TRUE
                            ELSE settled /\ changed = 0)
            /\ UNCHANGED valCurrent
    /\ UNCHANGED <<game, value, policy, calls, notMdpVars>>

\* --- The callers of the MDP ---

\* MDP.Update: the loop starts with UpdateValues.
CallUpdate ==
    /\ mdpPc = "idle" /\ calls < MaxCalls
    /\ calls' = calls + 1
    /\ StartUpdateValues("Update")
    /\ settled' = FALSE
    /\ UNCHANGED <<game, value, policy, last, notMdpVars>>

\* A call of UpdateValues alone.
CallUpdateValues ==
    /\ mdpPc = "idle" /\ calls < MaxCalls
    /\ calls' = calls + 1
    /\ StartUpdateValues("caller")
    /\ UNCHANGED <<game, value, policy, last, settled, notMdpVars>>

\* A call of UpdatePolicy alone.
CallUpdatePolicy ==
    /\ mdpPc = "idle" /\ calls < MaxCalls
    /\ calls' = calls + 1
    /\ StartUpdatePolicy("caller")
    /\ UNCHANGED <<game, value, policy, valCurrent, last, settled,
                   notMdpVars>>

NextMDP ==
    \/ CallUpdate
    \/ CallUpdateValues
    \/ CallUpdatePolicy
    \/ \E w \in Workers : WorkerRead(w)
    \/ \E w \in Workers : WorkerWrite(w)
    \/ PassAgain
    \/ UpdateValuesReturn
    \/ \E g \in GameStates : UpdatePolicyStep(g)
    \/ UpdatePolicyReturn

SpecMDP == InitMDP /\ [][NextMDP]_vars
\* ------------------------------------------------------------------------
\* Properties of the game driver
\* ------------------------------------------------------------------------

\* C1: every non-nil decision the game driver emits is an NFA successor of
\* the previously emitted state (of the initial state with the given field
\* and no hold, for the first emission) on the piece that is current at that
\* step, the pieces becoming current in arrival order: the first piece, the
\* preview pieces, then the input pieces.
DecisionIsSuccessor ==
    \A e \in Range(lastEmit) :
        /\ e.number = 1 => e.from = State(e.from.Field, EmptyPiece, FALSE)
        /\ e.decision # Nil =>
            e.decision \in Range(NextStates(e.from, e.piece))

\* The third decision of a game with a preview of one piece is not nil: the
\* first input piece has become current.
DecisionIsSuccessorWitness ==
    \E e \in Range(lastEmit) :
        e.number = 3 /\ e.decision # Nil /\ Len(next) = 1

NilIsFinal ==
    /\ [](\A e \in Range(lastEmit) :
            e.afterNil => e.decision = Nil /\ e.number = e.inputs + 1)
    /\ [][nilEmitted =>
            /\ state' = Nil
            /\ UNCHANGED <<current, next, bag>>
            /\ pc' \in {"send", "recv", "done"}
            /\ consumed' > consumed => pc' = "send"
            /\ pc' = "done" => inputClosed]_vars

\* A nil has been emitted for an input piece received after a nil.
NilIsFinalWitness ==
    \E e \in Range(lastEmit) :
        e.afterNil /\ e.decision = Nil /\ e.inputs >= 1

\* C4, as stated: when the input channel is closed and the consumer keeps
\* receiving, the output channel is eventually closed, after the decisions
\* for all pieces sent; the output channel is never closed while the input
\* channel is open.
ClosedOnlyAfterInput ==
    /\ inputClosed ~> outputClosed
    /\ [](outputClosed =>
            inputClosed /\ input = <<>> /\ emitted = Len(sent) + 1)

\* C4: when the input channel is closed and the consumer keeps receiving,
\* the output channel is eventually closed; unless the driver has panicked
\* on an impossible piece, the output channel is closed only when the
\* input channel is closed and the decisions for all pieces sent have been
\* emitted.
ClosedAfterInputUnlessPanic ==
    /\ inputClosed ~> outputClosed
    /\ [](outputClosed /\ pc # "panic" =>
            inputClosed /\ input = <<>> /\ emitted = Len(sent) + 1)
    /\ [](outputClosed => pc \in {"panic", "done"})

\* The output channel is closed after the decisions for two input pieces.
ClosedAfterInputWitness ==
    pc = "done" /\ outputClosed /\ inputClosed /\ emitted = 3

\* C5: when the first piece, the preview and the input pieces form a legal
\* 7 bag sequence starting from an empty bag, the game driver never panics
\* with "impossible piece", whatever the length of the preview.
LegalNeverPanics == legal => pc # "panic"

\* The driver has passed the bag update for the 8th piece of a legal
\* sequence that it received as an input piece after the bag became full in
\* the loop, and has a move.
LegalNeverPanicsWitness ==
    /\ legal
    /\ Len(next) < 6
    /\ 1 + Len(next) + consumed >= 8
    /\ state # Nil
    /\ pc = "send"

\* C6, as stated: whenever a piece that does not follow the 7 bag
\* randomizer is put on the input channel, the driver panics instead of
\* emitting a decision for it.
ImpossiblePanics == impossible => pc = "panic"

\* ------------------------------------------------------------------------
\* Properties of the NFA
\* ------------------------------------------------------------------------

\* The states some trajectory of the NFA reaches from a state of initial by
\* consuming pieces.
RECURSIVE Reachable(_, _)
Reachable(initial, pieces) ==
    IF pieces = <<>> THEN initial
    ELSE UNION {Range(NextStates(prev, pieces[Len(pieces)])) :
                   prev \in Reachable(initial,
                                      SubSeq(pieces, 1, Len(pieces) - 1))}

\* The length of the longest prefix of pieces that some trajectory from
\* initial consumes; consuming no piece takes no transition.
LongestPrefix(initial, pieces) ==
    CHOOSE k \in 0..Len(pieces) :
        /\ k > 0 => Reachable(initial, SubSeq(pieces, 1, k)) # {}
        /\ \A j \in (k + 1)..Len(pieces) :
            Reachable(initial, SubSeq(pieces, 1, j)) = {}

\* C7: EndStates returns as count the length k of the longest prefix of the
\* pieces that some trajectory from some initial state consumes, and as set
\* the states reachable from the initial set by consuming that prefix; the
\* count is the length of the sequence exactly when the whole sequence can
\* be consumed.
EndStatesIsReachable ==
    esPc = "done" =>
        LET k == LongestPrefix(esInitial, esPieces)
        IN  /\ esResult[2] = k
            /\ esResult[1] = Reachable(esInitial, SubSeq(esPieces, 1, k))
            /\ esResult[2] = Len(esPieces) <=>
                (esPieces = <<>> \/ Reachable(esInitial, esPieces) # {})

\* A call has returned before the last of three pieces with a set of states
\* that differs from the initial set.
EndStatesIsReachableWitness ==
    /\ esPc = "done"
    /\ Len(esPieces) = 3
    /\ esResult[2] = 2
    /\ esInitial # {}
    /\ esResult[1] # esInitial

\* C8: from the single state of field LeftI with no hold, EndStates consumes
\* all of S, O, L and returns the three end states of the test, one of them
\* swap restricted with hold L; it consumes two of J, O, S and returns one
\* end state, which is swap restricted.
EndStatesOfTest ==
    esPc = "done" /\ esInitial = {State(LeftI, EmptyPiece, FALSE)} =>
        /\ esPieces = <<S, O, L>> =>
            esResult =
                << { State(NewField4x4(<< <<X, X, X, o>> >>), L, TRUE),
                     State(NewField4x4(<< <<X, o, o, o>>,
                                          <<X, o, X, o>> >>), O, FALSE),
                     State(NewField4x4(<< <<o, o, X, X>>,
                                          <<o, o, o, X>> >>),
                           EmptyPiece, FALSE) },
                   3 >>
        /\ esPieces = <<J, O, S>> =>
            esResult =
                << { State(NewField4x4(<< <<o, X, X, X>> >>), O, TRUE) },
                   2 >>

\* The call of the test with the pieces S, O, L has returned.
EndStatesOfTestWitness ==
    /\ esPc = "done"
    /\ esInitial = {State(LeftI, EmptyPiece, FALSE)}
    /\ esPieces = <<S, O, L>>

\* The states a swap restricted state goes to by playing piece: the states
\* of the End fields of the catalogue's moves, with the same hold piece.
PlaysOf(st, piece) ==
    {State(AllContinuousMoves[i].End, st.Hold, FALSE) :
        i \in {j \in DOMAIN AllContinuousMoves :
                /\ AllContinuousMoves[j].Start = st.Field
                /\ AllContinuousMoves[j].Piece = piece}}

\* C9: from a swap restricted state (F, h, true) every transition on a
\* piece p plays p: the successors are exactly the states (E, h, false) of
\* the catalogue's moves from F with p to E; no successor changes the hold
\* piece or is swap restricted, so a hold is never followed by a hold.
RestrictedOnlyPlays ==
    /\ [](tState.SwapRestricted =>
            \A piece \in Pieces :
                Range(NextStates(tState, piece)) = PlaysOf(tState, piece))
    /\ [][tState.SwapRestricted =>
            /\ tState'.Hold = tState.Hold
            /\ ~tState'.SwapRestricted
            /\ tState' \in PlaysOf(tState, tPiece')]_vars

\* A transition has been taken from a swap restricted state.
RestrictedOnlyPlaysWitness ==
    tPrev # Nil /\ tPrev.SwapRestricted /\ tState.Hold = tPrev.Hold

\* C10: along every trajectory of the NFA, once a state has a hold piece
\* every later state has a hold piece: a state with Empty hold occurs only
\* before the first hold transition.
HoldStaysNonempty ==
    [][tState.Hold # EmptyPiece => tState'.Hold # EmptyPiece]_vars

\* A transition has swapped the hold piece for another piece.
HoldStaysNonemptyWitness ==
    /\ tPrev # Nil
    /\ tPrev.Hold # EmptyPiece
    /\ tState.Hold # EmptyPiece
    /\ tState.Hold # tPrev.Hold


\* ------------------------------------------------------------------------
\* Properties of the MDP
\* ------------------------------------------------------------------------

\* The values are at equilibrium for the stored policy.
ValuesAtEquilibrium ==
    \A g \in GameStates : value[g] = calcValue(game, value, g, policy[g])

\* No game state has a choice that is strictly better than its policy
\* choice: a call of UpdatePolicy would change nothing.
PolicyIsStable ==
    \A g \in GameStates : best(game, value, policy, g)[1] = policy[g]

\* C11: when Update has returned, a further call of UpdateValues and a
\* further call of UpdatePolicy return zero changes: the values are at
\* equilibrium for the stored policy and no game state has a strictly
\* better choice.
UpdateReturnsAtOptimum ==
    /\ last.afterUpdate => last.changes = 0
    /\ (mdpPc = "idle" /\ settled) =>
           (ValuesAtEquilibrium /\ PolicyIsStable)

\* Update has returned because UpdateValues found nothing to change after
\* a pass of UpdatePolicy that changed the policy.
UpdateReturnedAfterPolicyPass ==
    /\ mdpPc = "idle" /\ settled /\ calls = 1
    /\ last.call = "UpdateValues" /\ last.before = "UpdatePolicy"
    /\ ~last.afterUpdate

\* Update never returns in that way with a policy that can be improved
\* (refuted: see C11).
PolicyPassLeavesOptimum == UpdateReturnedAfterPolicyPass => PolicyIsStable

\* UpdateValues has just returned: nothing has been written since.
ValuesJustReturned ==
    /\ last.call = "UpdateValues"
    /\ \/ mdpPc = "idle"
       \/ mdpPc = "UpdatePolicy" /\ pending = GameStates

\* C12: when UpdateValues returns, the value of every stable game state is
\* calcValue of its policy choice, that is 1 plus the sum of the values of
\* the successors (absent ones counting 0) divided with truncation by the
\* number of possible next pieces; and a call of UpdateValues made right
\* after a call of UpdateValues returns 0 changes.
UpdateValuesReachesEquilibrium ==
    /\ ValuesJustReturned =>
           \A g \in GameStates :
               LET poss == possibilities(game, g, policy[g])
               IN  /\ value[g] = calcValue(game, value, g, policy[g])
                   /\ value[g] = 1 + (totalVal(value, poss) \div Len(poss))
    /\ (last.call = "UpdateValues" /\ last.before = "UpdateValues") =>
           last.changes = 0

\* A second call of UpdateValues has returned, with values above 1 that
\* depend on one another.
UpdateValuesReachesEquilibriumWitness ==
    /\ mdpPc = "idle"
    /\ last.call = "UpdateValues" /\ last.before = "UpdateValues"
    /\ \E g \in GameStates : value[g] >= 3

\* C13: the value of a stable game state never decreases: every write of a
\* worker to a cell, every write back to the map and every write of
\* UpdatePolicy stores a value that is at least the value it replaces, and
\* at least the initial value 1.
ValueNeverDecreases ==
    [][\A g \in GameStates :
           /\ value'[g] >= value[g] /\ value'[g] >= 1
           /\ valCurrent'[g] >= valCurrent[g] /\ valCurrent'[g] >= 1]_vars

\* UpdatePolicy has raised a value and, in the UpdateValues that follows,
\* two cells have been raised by their workers before the pass is over.
ValueNeverDecreasesWitness ==
    /\ mdpPc = "UpdateValues" /\ caller = "Update" /\ ~PassDone
    /\ last.call = "UpdatePolicy" /\ last.changes > 0
    /\ Cardinality({g \in GameStates : valCurrent[g] > value[g]}) >= 2

\* The determinant of a square matrix, by expansion along the first row.
RECURSIVE Det(_)
Det(m) ==
    IF Len(m) = 1 THEN m[1][1]
    ELSE LET n == Len(m)
             minor(j) == [r \in 1..(n - 1) |->
                             [c \in 1..(n - 1) |->
                                 m[r + 1][IF c < j THEN c ELSE c + 1]]]
             term(j) == (IF j % 2 = 1 THEN 1 ELSE -1) * m[1][j] * Det(minor(j))
         IN  SumOver([j \in 1..n |-> term(j)], 1..n)

\* The exact expected values x of a policy solve, for every game state g
\* with n possible next pieces, n * x[g] - (the sum of x over the stable
\* successors) = n.
Coefficients(gm, pol) ==
    [g \in GameStates |->
        [h \in GameStates |->
            LET poss == possibilities(gm, g, pol[g])
            IN  (IF g = h THEN Len(poss) ELSE 0)
                - Len(SelectSeq(poss, LAMBDA d : d = h))]]

\* Cramer's rule: x[g] = ExactNumerator(g) / ExactDenominator.
ExactDenominator(gm, pol) == Det(Coefficients(gm, pol))

ExactNumerator(gm, pol, g) ==
    Det([r \in GameStates |->
            [c \in GameStates |->
                IF c = g THEN Len(possibilities(gm, r, pol[r]))
                ELSE Coefficients(gm, pol)[r][c]]])

Abs(x) == IF x < 0 THEN -x ELSE x

notCallVars == <<driverVars, esVars, trajVars, mdpVars, buildVars>>

\* What a function that returns in one step leaves alone.
callFrame == <<call, scores, finished, heap, roots, notCallVars>>

\* The call of fn has not returned yet.
Calling(fn) == call.fn = fn /\ result = NoResult

\* ------------------------------------------------------------------------
\* tetris.Seq
\* ------------------------------------------------------------------------

\* NewSeq: encoding += uint32(p) << (4 * idx), for at most 7 pieces.
MustSeq(pieces) ==
    [encoding |-> SumOver([i \in 1..Len(pieces) |->
                              pieces[i] * (16 ^ (i - 1))], 1..Len(pieces)),
     len |-> Len(pieces)]

\* ToSlice: Piece((seq.encoding >> shift) & 15).
ToSlice(seq) ==
    [i \in 1..seq.len |-> (seq.encoding \div (16 ^ (i - 1))) % 16]

\* ------------------------------------------------------------------------
\* Policies (combo4/policy/mdp.go, combo4/bot/policy.go)
\* ------------------------------------------------------------------------

GameState(st, cur, preview, bagUsed) ==
    [State |-> st, Current |-> cur, Preview |-> preview, BagUsed |-> bagUsed]

\* bestScore starts at int64(-1 << 63), the least score there is; the least
\* integer of the checker stands for it.
LeastScore == -2147483647

\* Mutant of Better: the lower score wins.
Lower(score, bestScore) == bestScore = LeastScore \/ score < bestScore

\* if score > bestScore
Better(score, bestScore) == score > bestScore

\* The loop over scores: the first of the largest scores wins.
RECURSIVE bestState(_, _, _, _, _)
bestState(choices, scoreList, idx, bestSoFar, bestScore) ==
    IF idx > Len(scoreList) THEN bestSoFar
    ELSE IF Better(scoreList[idx], bestScore)
         THEN bestState(choices, scoreList, idx + 1, choices[idx], scoreList[idx])
         ELSE bestState(choices, scoreList, idx + 1, bestSoFar, bestScore)

\* scorePolicy.NextState, given the choices and the scores the scorer gives
\* them: nil without a choice, the only choice, or the best one.
scorePolicyNextState(choices, scoreList) ==
    CASE Len(choices) = 0 -> Nil
      [] Len(choices) = 1 -> choices[1]
      [] OTHER -> bestState(choices, scoreList, 1,
                            State(0, EmptyPiece, FALSE), LeastScore)

\* basicScorer.Score: how many of the known next pieces can be consumed.
basicScore(st, preview) == LongestPrefix({st}, preview)

\* The scores a default policy's scorer gives the choices of a situation:
\* those of the basicScorer, or those of an NFAScorer of length 7, which
\* are an input of the model (scorer.nfa7 maps the situation to them).
scoresOf(scorer, initial, cur, preview, endBagUsed) ==
    IF scorer.basic
    THEN [i \in 1..Len(NextStates(initial, cur)) |->
             basicScore(NextStates(initial, cur)[i], preview)]
    ELSE scorer.nfa7[<<initial, cur, preview, endBagUsed>>]

defaultNextState(scorer, initial, cur, preview, endBagUsed) ==
    scorePolicyNextState(NextStates(initial, cur),
                         scoresOf(scorer, initial, cur, preview, endBagUsed))

\* MDPPolicy.NextState: the policy's entry for the game state, or the
\* default policy's choice when it has none.
MDPPolicyNextState(pol, initial, cur, preview, endBagUsed) ==
    LET key == GameState(initial, cur, MustSeq(preview), endBagUsed)
    IN  IF key \in DOMAIN pol.policy
        THEN pol.policy[key]
        ELSE defaultNextState(pol.defaultPol, initial, cur, preview,
                              endBagUsed)

\* Mutant of Obvious: every entry is dropped.
ObviousAlways(gState, choice, scorer) == TRUE

\* An entry is not stored when the game state has at most one choice or
\* when the choice is the one of the default policy.
Obvious(gState, choice, scorer) ==
    \/ Len(NextStates(gState.State, gState.Current)) <= 1
    \/ choice = defaultNextState(scorer, gState.State, gState.Current,
                                 ToSlice(gState.Preview), gState.BagUsed)

\* MDP.CompressedPolicy.
CompressedPolicy(mpolicy, scorer) ==
    [policy |-> [gState \in {k \in DOMAIN mpolicy :
                                ~Obvious(k, mpolicy[k], scorer)} |->
                    mpolicy[gState]],
     defaultPol |-> scorer,
     compressed |-> TRUE]

\* MDP.Policy.
UncompressedPolicy(mpolicy) ==
    [policy |-> mpolicy, defaultPol |-> [basic |-> TRUE],
     compressed |-> FALSE]

\* The scores a scorer can give.
ScoreValues == {0, 1}

\* Stable game states of an MDP with a preview of one piece: with one
\* choice, with three choices, and with four choices two of which are the
\* same state twice.
PolicyKeys ==
    {GameState(State(LeftI, T, FALSE), Z, MustSeq(<<I>>),
               Add(PieceSetOf(Z), I)),
     GameState(State(LeftI, T, FALSE), I, MustSeq(<<O>>),
               Add(PieceSetOf(I), O)),
     GameState(State(LeftI, I, FALSE), I, MustSeq(<<T>>),
               Add(PieceSetOf(I), T))}

situation(k) == <<k.State, k.Current, ToSlice(k.Preview), k.BagUsed>>

\* The functions that map every key to one of its options.
RECURSIVE FunctionsOver(_, _, _)
FunctionsOver(keys, name, options) ==
    IF keys = {} THEN {<<>>}
    ELSE LET k == CHOOSE x \in keys : TRUE
         IN  {(name[k] :> v) @@ f :
                 v \in options[k],
                 f \in FunctionsOver(keys \ {k}, name, options)}


\* The policies of an MDP over these game states, with the scores an
\* NFAScorer of length 7 gives their choices.
CompressedPolicyCalls ==
    {[fn |-> "CompressedPolicy", policy |-> mpolicy,
      scorer |-> [basic |-> FALSE, nfa7 |-> sc]] :
        mpolicy \in
            FunctionsOver(PolicyKeys, [k \in PolicyKeys |-> k],
                [k \in PolicyKeys |->
                    Range(NextStates(k.State, k.Current))]),
        sc \in
            FunctionsOver(PolicyKeys, [k \in PolicyKeys |-> situation(k)],
                [k \in PolicyKeys |->
                    [1..Len(NextStates(k.State, k.Current)) ->
                        ScoreValues]])}

ReturnCompressedPolicy ==
    /\ Calling("CompressedPolicy")
    /\ result' = CompressedPolicy(call.policy, call.scorer)
    /\ UNCHANGED callFrame

\* C15: for every stable game state of an MDP the compressed policy returns
\* the same next state as the uncompressed policy.
CompressedPolicyAgrees ==
    (call.fn = "CompressedPolicy" /\ result # NoResult) =>
        \A g \in DOMAIN call.policy :
            MDPPolicyNextState(result, g.State, g.Current,
                               ToSlice(g.Preview), g.BagUsed)
              = MDPPolicyNextState(UncompressedPolicy(call.policy), g.State,
                                   g.Current, ToSlice(g.Preview), g.BagUsed)

\* A compressed policy that keeps one entry and has dropped another one of
\* a game state with several choices, for which the two default policies
\* disagree.
CompressedPolicyAgreesWitness ==
    /\ call.fn = "CompressedPolicy" /\ result # NoResult
    /\ DOMAIN result.policy # {}
    /\ \E g \in DOMAIN call.policy \ DOMAIN result.policy :
           /\ Len(NextStates(g.State, g.Current)) > 1
           /\ defaultNextState([basic |-> TRUE], g.State, g.Current,
                               ToSlice(g.Preview), g.BagUsed)
                # call.policy[g]

\* ------------------------------------------------------------------------
\* scorePolicy.NextState with its scoring goroutines
\* ------------------------------------------------------------------------

\* The scores a scorer can give a choice.
ChoiceScores == {-1, 0, 1}

\* The states the policy is asked about.
AskedStates ==
    {State(LeftI, EmptyPiece, FALSE), State(LeftI, T, FALSE),
     State(LeftI, I, FALSE), State(LeftI, Z, TRUE)}

\* The calls of NextState: a state, a piece and a scorer, which gives every
\* choice a score.
NextStateCalls ==
    UNION {{[fn |-> "NextState", initial |-> st, current |-> p,
             scorer |-> sc] :
               sc \in [Range(NextStates(st, p)) -> ChoiceScores]} :
             st \in AskedStates, p \in Pieces}

\* The choices of the call that is running.
askedOf(c) == NextStates(c.initial, c.current)

\* A goroutine stores the score of its choice at its index and is done.
ScoreChoice ==
    /\ Calling("NextState")
    /\ Len(askedOf(call)) > 1
    /\ \E idx \in DOMAIN askedOf(call) \ Range(finished) :
           /\ scores' = [scores EXCEPT ![idx] = call.scorer[askedOf(call)[idx]]]
           /\ finished' = Append(finished, idx)
    /\ UNCHANGED <<call, result, heap, roots, notCallVars>>

\* Without a choice or with one choice NextState returns at once; with more
\* it returns once every goroutine is done (wg.Wait).
NextStateReturn ==
    /\ Calling("NextState")
    /\ Len(askedOf(call)) > 1 => Len(finished) = Len(askedOf(call))
    /\ result' = scorePolicyNextState(askedOf(call), scores)
    /\ UNCHANGED callFrame

\* The first index of the largest score.
firstBest(list, scorer) ==
    CHOOSE i \in DOMAIN list :
        /\ \A j \in DOMAIN list : scorer[list[j]] <= scorer[list[i]]
        /\ \A j \in 1..(i - 1) : scorer[list[j]] < scorer[list[i]]

\* C16: the scorer-backed policy returns nil exactly when NextStates is
\* empty; otherwise it returns a member of NextStates whose score is the
\* largest of all members, and the same one in whatever order the scoring
\* goroutines finish.
NextStateIsBest ==
    (call.fn = "NextState" /\ result # NoResult) =>
        /\ result = Nil <=> Len(askedOf(call)) = 0
        /\ Len(askedOf(call)) > 0 =>
               /\ \E i \in DOMAIN askedOf(call) :
                      /\ result = askedOf(call)[i]
                      /\ \A j \in DOMAIN askedOf(call) :
                             call.scorer[askedOf(call)[j]]
                               <= call.scorer[askedOf(call)[i]]
               /\ result = askedOf(call)[firstBest(askedOf(call), call.scorer)]

\* NextState has returned the third of three choices, the only one with
\* the largest score, and its goroutine was the first to finish.
NextStateIsBestWitness ==
    /\ call.fn = "NextState" /\ result # NoResult
    /\ Len(askedOf(call)) >= 3
    /\ finished[1] = 3 /\ finished[Len(finished)] = 1
    /\ result = askedOf(call)[3]
    /\ \A j \in 1..2 : call.scorer[askedOf(call)[j]] < call.scorer[askedOf(call)[3]]
\* ------------------------------------------------------------------------
\* The calls of the functions that return in one step
\* ------------------------------------------------------------------------

Calls == CompressedPolicyCalls

InitCalls ==
    /\ call \in Calls
    /\ result = NoResult
    /\ scores = <<>>
    /\ finished = <<>>
    /\ heap = <<>> /\ roots = <<>>
    /\ DriverUnused /\ EndStatesUnused /\ TrajectoryUnused /\ MDPUnused

NextCalls ==
    \/ ReturnCompressedPolicy

SpecCalls == InitCalls /\ [][NextCalls]_vars

\* ------------------------------------------------------------------------
\* The calls of scorePolicy.NextState with its scoring goroutines
\* ------------------------------------------------------------------------

InitNextState ==
    /\ call \in NextStateCalls
    /\ result = NoResult
    /\ scores = [i \in DOMAIN askedOf(call) |-> 0]
    /\ finished = <<>>
    /\ heap = <<>> /\ roots = <<>>
    /\ DriverUnused /\ EndStatesUnused /\ TrajectoryUnused /\ MDPUnused

NextNextState ==
    \/ ScoreChoice
    \/ NextStateReturn

SpecNextState == InitNextState /\ [][NextNextState]_vars
\* ------------------------------------------------------------------------
\* NFAScorer.Score: three counts packed into an int64
\* ------------------------------------------------------------------------

\* The width of int and of int64 on the 64-bit targets.
IntBits == 64

\* A width in which the packing cannot overflow; it gives the exact value.
WideBits == 80

\* Integers are sequences of bits, the least significant bit first, in two's
\* complement.
BitsOf(ones, width) == [i \in 1..width |-> IF (i - 1) \in ones THEN 1 ELSE 0]

\* x << k in the width of x.
ShiftLeft(x, k) == [i \in 1..Len(x) |-> IF i > k THEN x[i - k] ELSE 0]

RECURSIVE addBits(_, _, _, _)
addBits(x, y, i, carry) ==
    IF i > Len(x) THEN <<>>
    ELSE LET sum == x[i] + y[i] + carry
         IN  <<sum % 2>> \o addBits(x, y, i + 1, sum \div 2)

\* x + y in the width of x, wrapping around.
Plus(x, y) == addBits(x, y, 1, 0)

RECURSIVE subBits(_, _, _, _)
subBits(x, y, i, borrow) ==
    IF i > Len(x) THEN <<>>
    ELSE LET diff == x[i] - y[i] - borrow
         IN  <<diff % 2>> \o subBits(x, y, i + 1, IF diff < 0 THEN 1 ELSE 0)

\* x - y in the width of x, wrapping around.
Minus(x, y) == subBits(x, y, 1, 0)

RECURSIVE lessFrom(_, _, _)
lessFrom(x, y, i) ==
    IF i = 0 THEN FALSE
    ELSE IF x[i] # y[i] THEN x[i] < y[i]
    ELSE lessFrom(x, y, i - 1)

\* x < y for integers that are not negative.
Less(x, y) == lessFrom(x, y, Len(x))

\* x < y for signed integers of one width.
SignedLess(x, y) ==
    IF x[Len(x)] # y[Len(y)] THEN x[Len(x)] = 1 ELSE Less(x, y)

\* The same signed value in a larger width.
SignExtend(x, width) ==
    [i \in 1..width |-> IF i <= Len(x) THEN x[i] ELSE x[Len(x)]]

\* The packing with the second count shifted by one bit less.
ScoreShiftedLess(tuple) ==
    Plus(Minus(ShiftLeft(tuple.consumed, 50),
               ShiftLeft(tuple.invalidPermutations, 9)),
         tuple.numStates)

\* int64(consumed<<50) - int64(invalidPermutations<<10) + int64(numStates)
Score(tuple) ==
    Plus(Minus(ShiftLeft(tuple.consumed, 50),
               ShiftLeft(tuple.invalidPermutations, 10)),
         tuple.numStates)

scoreTuple(c, p, n, width) ==
    [consumed |-> BitsOf(c, width),
     invalidPermutations |-> BitsOf(p, width),
     numStates |-> BitsOf(n, width)]

\* The counts that are scored, each as the set of its one bits: consumed is
\* less than 2^13, the invalid permutations less than 2^40 and the number of
\* states less than 2^10.
ConsumedCounts == {{}, {0}, 1..12, 0..12}
PermutationCounts == {{}, {0}, {1}, 0..39, 1..39}
StateCounts == {{}, {0}, 1..9, 0..9}

ScoreTuples ==
    {<<c, p, n>> : c \in ConsumedCounts, p \in PermutationCounts,
                   n \in StateCounts}

\* Score is called for two tuples.
ScoreCall(a, b) == [fn |-> "Score", first |-> a, second |-> b]

tupleOf(t, width) == scoreTuple(t[1], t[2], t[3], width)

ReturnScore ==
    /\ Calling("Score")
    /\ result' = [first |-> Score(tupleOf(call.first, IntBits)),
                  second |-> Score(tupleOf(call.second, IntBits))]
    /\ UNCHANGED callFrame

InitScore ==
    /\ \E a \in ScoreTuples, b \in ScoreTuples : call = ScoreCall(a, b)
    /\ result = NoResult
    /\ scores = <<>>
    /\ finished = <<>>
    /\ heap = <<>> /\ roots = <<>>
    /\ DriverUnused /\ EndStatesUnused /\ TrajectoryUnused /\ MDPUnused

NextScore ==
    \/ ReturnScore

SpecScore == InitScore /\ [][NextScore]_vars

\* a < b for two counts given by their one bits.
CountLess(a, b) == Less(BitsOf(a, WideBits), BitsOf(b, WideBits))

\* The first tuple is better: more consumed, then fewer invalid
\* permutations, then more states.
BetterTuple(a, b) ==
    \/ CountLess(b[1], a[1])
    \/ a[1] = b[1] /\ CountLess(a[2], b[2])
    \/ a[1] = b[1] /\ a[2] = b[2] /\ CountLess(b[3], a[3])

\* C17: for counts within their bit ranges the packed Score orders two
\* tuples lexicographically (more consumed, then fewer invalid permutations,
\* then more states), equal scores come from equal tuples only, and the
\* 64-bit result is the exact value of the expression (nothing overflows).
ScoreOrdersTuples ==
    (call.fn = "Score" /\ result # NoResult) =>
        /\ SignedLess(result.second, result.first)
             <=> BetterTuple(call.first, call.second)
        /\ result.first = result.second => call.first = call.second
        /\ SignExtend(result.first, WideBits)
             = Score(tupleOf(call.first, WideBits))
        /\ SignExtend(result.second, WideBits)
             = Score(tupleOf(call.second, WideBits))

\* Two tuples at the edge of the ranges: 8191 pieces consumed with 2^40 - 1
\* invalid permutations and no state beat 8190 pieces consumed with no
\* invalid permutation and 1023 states.
ScoreOrdersTuplesWitness ==
    /\ call.fn = "Score" /\ result # NoResult
    /\ call.first = <<0..12, 0..39, {}>>
    /\ call.second = <<1..12, {}, 0..9>>
    /\ SignedLess(result.second, result.first)
\* ------------------------------------------------------------------------
\* SeqSet (package tetris): a set of sequences given by prefixes
\* ------------------------------------------------------------------------

\* The outcome of a call: it panics or it returns a value.
Panic == [panic |-> TRUE]
Value(v) == [value |-> v]

\* A SeqSet pointer is Nil or a node: hasAllSeq, the seven subSeqSets
\* (index Piece-1 in the source, Piece here) and permBag, <<>> for nil and
\* <<bag>> for a pointer to a bag. The nodes of the permutations table are
\* cyclic; their subSeqSets are read from the table by sub.
NoSubSeqSets == [i \in 1..7 |-> Nil]

\* new(SeqSet)
NewSeqSetNode == [hasAllSeq |-> FALSE, subSeqSets |-> NoSubSeqSets,
                  permBag |-> <<>>]

\* ContainsAllSeqSet is a SeqSet that contains all sequences.
ContainsAllSeqSet == [hasAllSeq |-> TRUE, subSeqSets |-> NoSubSeqSets,
                      permBag |-> <<>>]

\* Permutations returns a SeqSet that contains all sequences starting from
\* the given bag state assuming a 7 bag randomizer: &permutations[bagUsed].
PermutationsOf(bagUsed) ==
    [hasAllSeq |-> FALSE, subSeqSets |-> NoSubSeqSets, permBag |-> <<bagUsed>>]

\* The subSeqSets with a full bag left full.
permutationsSubOfFullBag(bagIdx, p) ==
    IF ~Contains(bagIdx, p) THEN PermutationsOf(Add(bagIdx, p)) ELSE Nil

\* init: the subSeqSets of permutations[bagIdx]; a full bag is equivalent
\* to the empty bag.
permutationsSub(bagIdx, p) ==
    LET rest == IF PieceSetLen(bagIdx) = 7 THEN 0 ELSE bagIdx
    IN  IF ~Contains(rest, p) THEN PermutationsOf(Add(rest, p)) ELSE Nil

\* s.subSeqSets[p-1]
sub(s, p) ==
    IF s.permBag # <<>> THEN permutationsSub(s.permBag[1], p)
    ELSE s.subSeqSets[p]

\* AddPrefix adds the prefix to the SeqSet; the value is the node after the
\* call, or Panic.
RECURSIVE AddPrefix(_, _)
AddPrefix(s, prefix) ==
    IF s.hasAllSeq THEN s
    ELSE IF s.permBag # <<>> THEN Panic
    ELSE IF Len(prefix) = 0
    THEN [s EXCEPT !.hasAllSeq = TRUE, !.subSeqSets = NoSubSeqSets]
    ELSE IF prefix[1] = EmptyPiece THEN Panic
    ELSE IF Len(prefix) = 1
    THEN [s EXCEPT !.subSeqSets[prefix[1]] = ContainsAllSeqSet]
    ELSE LET nextSet == IF s.subSeqSets[prefix[1]] = Nil
                     THEN NewSeqSetNode
                     ELSE s.subSeqSets[prefix[1]]
             added == AddPrefix(nextSet, Tail(prefix))
         IN  IF added = Panic THEN Panic
             ELSE [s EXCEPT !.subSeqSets[prefix[1]] = added]

\* Contains without the test where the sequence ends.
RECURSIVE ContainsLonger(_, _)
ContainsLonger(s, sequence) ==
    IF s = Nil THEN Value(FALSE)
    ELSE IF s.hasAllSeq THEN Value(TRUE)
    ELSE IF Len(sequence) = 0 THEN Value(TRUE)
    ELSE IF sequence[1] = EmptyPiece THEN Panic
    ELSE ContainsLonger(sub(s, sequence[1]), Tail(sequence))

\* Contains returns if the sequence is contained in the SeqSet; the index
\* sequence[0]-1 of an Empty piece is out of range.
RECURSIVE SeqSetContains(_, _)
SeqSetContains(s, sequence) ==
    IF s = Nil THEN Value(FALSE)
    ELSE IF s.hasAllSeq THEN Value(TRUE)
    ELSE IF Len(sequence) = 0 THEN Value(s.permBag # <<>>)
    ELSE IF sequence[1] = EmptyPiece THEN Panic
    ELSE SeqSetContains(sub(s, sequence[1]), Tail(sequence))

\* The longest prefixes and sequences of the calls.
MaxPrefixLen == 3
MaxSeqLen == 4

\* The pieces of the prefixes: the first, a middle and the last index of
\* subSeqSets.
PrefixPieces == {T, S, I}

SeqsFromTo(set, low, high) == UNION {[1..k -> set] : k \in low..high}

\* Contains is called on the SeqSet made of one prefix.
ContainsCall(s, x) == [fn |-> "Contains", prefix |-> s, sequence |-> x]

ReturnContains ==
    /\ Calling("Contains")
    /\ result' = SeqSetContains(AddPrefix(NewSeqSetNode, call.prefix),
                                call.sequence)
    /\ UNCHANGED callFrame

InitContains ==
    /\ \E s \in SeqsFromTo(PrefixPieces, 1, MaxPrefixLen),
          x \in SeqsFromTo(PrefixPieces \cup {EmptyPiece}, 0, MaxSeqLen) :
            call = ContainsCall(s, x)
    /\ result = NoResult
    /\ scores = <<>>
    /\ finished = <<>>
    /\ heap = <<>> /\ roots = <<>>
    /\ DriverUnused /\ EndStatesUnused /\ TrajectoryUnused /\ MDPUnused

NextContains ==
    \/ ReturnContains

SpecContains == InitContains /\ [][NextContains]_vars

IsPrefix(s, x) == Len(s) <= Len(x) /\ SubSeq(x, 1, Len(s)) = s

\* C20: the SeqSet built from one non-empty prefix s without the Empty piece
\* contains a sequence x exactly when s is a prefix of x: s and every
\* extension of s, and nothing else; for a sequence of non-empty pieces the
\* call returns.
ContainsIffPrefix ==
    (call.fn = "Contains" /\ result # NoResult) =>
        /\ result = Value(TRUE) <=> IsPrefix(call.prefix, call.sequence)
        /\ EmptyPiece \notin Range(call.sequence) => result # Panic

\* Contains has returned true for an extension of a prefix of three pieces.
ContainsIffPrefixWitness ==
    /\ call.fn = "Contains" /\ result = Value(TRUE)
    /\ call.prefix = <<T, I, S>> /\ call.sequence = <<T, I, S, I>>

\* Contains has returned false for a proper prefix of the prefix.
ContainsProperPrefixWitness ==
    /\ call.fn = "Contains" /\ result = Value(FALSE)
    /\ call.prefix = <<T, I, S>> /\ call.sequence = <<T, I>>
\* ------------------------------------------------------------------------
\* NFAScorer: the sequences no trajectory of the NFA consumes
\* ------------------------------------------------------------------------

\* The node, or nil when it has no subSeqSet (hasSubSeq).
nilWithoutSubSeq(node) ==
    IF \E i \in 1..7 : node.subSeqSets[i] # Nil THEN node ELSE Nil

\* Intersection that intersects the first subSeqSet only and keeps the
\* others of this SeqSet.
RECURSIVE IntersectionOfFirst(_, _)
IntersectionOfFirst(s, other) ==
    IF s = Nil \/ other = Nil THEN Nil
    ELSE IF s.hasAllSeq THEN other
    ELSE IF other.hasAllSeq THEN s
    ELSE nilWithoutSubSeq(
             [hasAllSeq |-> FALSE,
              subSeqSets |-> [i \in 1..7 |->
                  IF i = 1 THEN IntersectionOfFirst(sub(s, i), sub(other, i))
                  ELSE sub(s, i)],
              permBag |-> <<>>])

\* Mutant of Intersection: the other SeqSet, whatever this one holds.
IntersectionOfOther(s, other) ==
    IF s = Nil \/ other = Nil THEN Nil ELSE other

\* Intersection returns the intersection of this SeqSet and another.
RECURSIVE Intersection(_, _)
Intersection(s, other) ==
    IF s = Nil \/ other = Nil THEN Nil
    ELSE IF s.hasAllSeq THEN other
    ELSE IF other.hasAllSeq THEN s
    ELSE nilWithoutSubSeq(
             [hasAllSeq |-> FALSE,
              subSeqSets |-> [i \in 1..7 |->
                                 Intersection(sub(s, i), sub(other, i))],
              permBag |-> <<>>])

\* PrependedSeqSets builds a node whose child of piece p is the SeqSet
\* given for p.
PrependedSeqSets(prefixToSet) ==
    [hasAllSeq |-> FALSE, subSeqSets |-> [p \in 1..7 |-> prefixToSet[p]],
     permBag |-> <<>>]

\* A map read: a missing key reads as the nil pointer.
inviableOf(inviableMap, st) ==
    IF st \in DOMAIN inviableMap THEN inviableMap[st] ELSE Nil

RECURSIVE intersectAll(_, _, _, _)
intersectAll(intersxn, endStates, idx, prevInviable) ==
    IF idx > Len(endStates) THEN intersxn
    ELSE intersectAll(Intersection(intersxn,
                                   inviableOf(prevInviable, endStates[idx])),
                      endStates, idx + 1, prevInviable)

\* The round without the sets of the round before: a piece is inviable
\* when it has no next state.
stateInviableFirstPiece(st, prevInviable) ==
    PrependedSeqSets([p \in 0..7 |->
        IF Len(NextStates(st, p)) = 0 THEN ContainsAllSeqSet ELSE Nil])

\* The goroutine of one state in a round of NewNFAScorer.
stateInviable(st, prevInviable) ==
    PrependedSeqSets([p \in 0..7 |->
        intersectAll(ContainsAllSeqSet, NextStates(st, p), 1, prevInviable)])

\* One round of NewNFAScorer: the maps are swapped and the set of every
\* state, made from prevInviable, is stored in inviable.
inviableRound(before) ==
    [prevInviable |-> before.inviable,
     inviable |-> [st \in States |-> stateInviable(st, before.inviable)]
                      @@ before.prevInviable]

\* The maps prevInviable and inviable after n rounds of NewNFAScorer.
RECURSIVE inviableRounds(_)
inviableRounds(n) ==
    IF n = 0 THEN [prevInviable |-> <<>>, inviable |-> <<>>]
    ELSE CHOOSE after \in {inviableRound(before) :
                               before \in {inviableRounds(n - 1)}} : TRUE

\* The longest permutations a scorer is made for.
MaxPermLen == 2

\* NewNFAScorer creates a new Scorer based on permutations of the specified
\* length.
NewNFAScorer(permLen) ==
    [permLen |-> permLen, inviable |-> inviableRounds(permLen).inviable]

\* The scorers of the NFA, one for every length.
scorers == [permLen \in 1..MaxPermLen |-> NewNFAScorer(permLen)]

\* A state and a sequence of the scorer's length are looked up in inviable.
InviableCall(n, st, x) ==
    [fn |-> "inviable", permLen |-> n, state |-> st, sequence |-> x]

ReturnInviable ==
    /\ Calling("inviable")
    /\ result' = SeqSetContains(
                     inviableOf(scorers[call.permLen].inviable, call.state),
                     call.sequence)
    /\ UNCHANGED callFrame

InitInviable ==
    /\ \E n \in 1..MaxPermLen, st \in States :
           \E x \in [1..n -> Pieces] : call = InviableCall(n, st, x)
    /\ result = NoResult
    /\ scores = <<>>
    /\ finished = <<>>
    /\ heap = <<>> /\ roots = <<>>
    /\ DriverUnused /\ EndStatesUnused /\ TrajectoryUnused /\ MDPUnused

NextInviable ==
    \/ ReturnInviable

SpecInviable == InitInviable /\ [][NextInviable]_vars

\* C18: after NewNFAScorer(nfa, L) a sequence x of L pieces is in
\* inviable[s] exactly when no trajectory of the NFA from s consumes all L
\* pieces of x.
InviableIsUnconsumable ==
    (call.fn = "inviable" /\ result # NoResult) =>
        result = Value(LongestPrefix({call.state}, call.sequence)
                         < call.permLen)

\* A sequence of two pieces is inviable although the state has a next state
\* for its first piece; another one is consumed.
InviableIsUnconsumableWitness ==
    /\ call.fn = "inviable" /\ result = Value(TRUE)
    /\ call.permLen = 2
    /\ NextStates(call.state, call.sequence[1]) # <<>>

InviableViableWitness ==
    /\ call.fn = "inviable" /\ result = Value(FALSE)
    /\ call.permLen = 2
\* ------------------------------------------------------------------------
\* NFAScorer.inviableSeqs: the invalid permutations of a score
\* ------------------------------------------------------------------------

\* The product with the choices never refilled to seven.
RECURSIVE productOfOneBag(_, _)
productOfOneBag(choices, length) ==
    IF length <= 0 THEN 1
    ELSE choices * productOfOneBag(choices - 1, length - 1)

\* The number of sequences of a length that a 7 bag randomizer with a
\* number of choices left in its bag can produce.
RECURSIVE product(_, _)
product(choices, length) ==
    IF length <= 0 THEN 1
    ELSE choices * product(IF choices = 1 THEN 7 ELSE choices - 1, length - 1)

\* Size with every node counted as ContainsAllSeqSet is: without the bag.
RECURSIVE SizeWithoutBag(_, _)
SizeWithoutBag(s, length) ==
    IF s = Nil THEN 0
    ELSE IF length < 0 THEN 0
    ELSE IF s.hasAllSeq \/ s.permBag # <<>> THEN 7 ^ length
    ELSE LET sizes == [i \in 1..7 |-> SizeWithoutBag(sub(s, i), length - 1)]
         IN  sizes[1] + sizes[2] + sizes[3] + sizes[4] + sizes[5] + sizes[6]
                 + sizes[7]

\* Size returns the total number of sequences of a given length in the
\* SeqSet.
RECURSIVE Size(_, _)
Size(s, length) ==
    IF s = Nil THEN 0
    ELSE IF s.permBag # <<>>
    THEN product(IF PieceSetLen(s.permBag[1]) = 7 THEN 7
                 ELSE 7 - PieceSetLen(s.permBag[1]), length)
    ELSE IF length < 0 THEN 0
    ELSE IF s.hasAllSeq THEN 7 ^ length
    ELSE LET sizes == [i \in 1..7 |-> Size(sub(s, i), length - 1)]
         IN  sizes[1] + sizes[2] + sizes[3] + sizes[4] + sizes[5] + sizes[6]
                 + sizes[7]

\* genSizes: the size of the inviable SeqSet of a state.
inviableSizes(scorer, st) == Size(inviableOf(scorer.inviable, st), scorer.permLen)

RECURSIVE inviableForAll(_, _, _, _)
inviableForAll(scorer, intersxn, states, idx) ==
    IF idx > Len(states) THEN intersxn
    ELSE inviableForAll(scorer,
                        Intersection(intersxn,
                                     inviableOf(scorer.inviable, states[idx])),
                        states, idx + 1)

\* inviableSeqs for the slice of end states as it is after the sort.
inviableSeqs(scorer, states, bagUsed) ==
    Size(inviableForAll(scorer, PermutationsOf(bagUsed), states, 1),
         scorer.permLen)

\* The most end states of a call, the end states and the bags.
MaxEndStates == 2

EndStatePool ==
    {st \in States : /\ st.Field \in {LeftI, RightI}
                     /\ st.Hold \in {EmptyPiece, I, J, S}}

BagsUsed ==
    {0, PieceSetOf(I), Add(PieceSetOf(I), J),
     254 - PieceSetOf(T), 254}

\* The orders sort.Slice can leave the end states in: no state has fewer
\* inviable sequences than the one before it.
Sorted(scorer, states) ==
    /\ \A i, j \in DOMAIN states : i # j => states[i] # states[j]
    /\ \A i \in 1..(Len(states) - 1) :
           inviableSizes(scorer, states[i])
             <= inviableSizes(scorer, states[i + 1])

InviableSeqsCall(n, states, bagUsed) ==
    [fn |-> "inviableSeqs", permLen |-> n, states |-> states,
     bagUsed |-> bagUsed]

ReturnInviableSeqs ==
    /\ Calling("inviableSeqs")
    /\ result' = Value(inviableSeqs(scorers[call.permLen], call.states,
                                    call.bagUsed))
    /\ UNCHANGED callFrame

InitInviableSeqs ==
    /\ \E n \in 1..MaxPermLen, bagUsed \in BagsUsed,
          states \in SeqsFromTo(EndStatePool, 0, MaxEndStates) :
            /\ Sorted(scorers[n], states)
            /\ call = InviableSeqsCall(n, states, bagUsed)
    /\ result = NoResult
    /\ scores = <<>>
    /\ finished = <<>>
    /\ heap = <<>> /\ roots = <<>>
    /\ DriverUnused /\ EndStatesUnused /\ TrajectoryUnused /\ MDPUnused

NextInviableSeqs ==
    \/ ReturnInviableSeqs

SpecInviableSeqs == InitInviableSeqs /\ [][NextInviableSeqs]_vars

\* The pieces of a bag.
PiecesOf(bagUsed) == {p \in Pieces : Contains(bagUsed, p)}

\* The sequences of a length that continue the 7 bag randomizer from a bag.
BagSeqs(bagUsed, length) ==
    {x \in [1..length -> Pieces] : AllDrawable(PiecesOf(bagUsed), x)}

\* C19: the invalid permutations of the scorer are the sequences of L
\* pieces that continue the 7 bag from bagUsed and that no trajectory of
\* the NFA from a state of the set of end states consumes whole.
InviableSeqsCounts ==
    (call.fn = "inviableSeqs" /\ result # NoResult) =>
        result = Value(Cardinality(
            {x \in BagSeqs(call.bagUsed, call.permLen) :
                 LongestPrefix(Range(call.states), x) < call.permLen}))

\* Two end states and the bag {I, J}: some sequences of two pieces that
\* continue the bag are consumed and some are not.
InviableSeqsCountsWitness ==
    /\ call.fn = "inviableSeqs" /\ result # NoResult
    /\ call.permLen = 2 /\ Len(call.states) = 2
    /\ call.bagUsed = Add(PieceSetOf(I), J)
    /\ result.value > 0
    /\ result.value < Cardinality(BagSeqs(call.bagUsed, 2))

\* No end state: every sequence that continues the bag counts.
InviableSeqsNoStateWitness ==
    /\ call.fn = "inviableSeqs" /\ result # NoResult
    /\ call.permLen = 2 /\ Len(call.states) = 0
    /\ call.bagUsed = 254 - PieceSetOf(T)
    /\ result.value = 7
\* ------------------------------------------------------------------------
\* SeqSet.Union and SeqSet.Intersection on finite tries
\* ------------------------------------------------------------------------

\* Union that looks for hasAllSeq in this SeqSet only.
RECURSIVE UnionAllOfFirst(_, _)
UnionAllOfFirst(s, other) ==
    IF s = Nil THEN other
    ELSE IF other = Nil THEN s
    ELSE IF s.hasAllSeq THEN ContainsAllSeqSet
    ELSE [hasAllSeq |-> FALSE,
          subSeqSets |-> [i \in 1..7 |->
                             UnionAllOfFirst(sub(s, i), sub(other, i))],
          permBag |-> <<>>]

\* Union returns the union of this SeqSet and another.
RECURSIVE Union(_, _)
Union(s, other) ==
    IF s = Nil THEN other
    ELSE IF other = Nil THEN s
    ELSE IF s.hasAllSeq \/ other.hasAllSeq THEN ContainsAllSeqSet
    ELSE [hasAllSeq |-> FALSE,
          subSeqSets |-> [i \in 1..7 |-> Union(sub(s, i), sub(other, i))],
          permBag |-> <<>>]

\* The pieces whose subSeqSets the tries use: the first and the last index.
TriePieces == {T, I}

\* &SeqSet{subSeqSets: ...} with the two subSeqSets given.
TrieNode(subT, subI) ==
    [hasAllSeq |-> FALSE,
     subSeqSets |-> [i \in 1..7 |-> IF i = T THEN subT
                                    ELSE IF i = I THEN subI ELSE Nil],
     permBag |-> <<>>]

\* The finite tries: the nil pointer, ContainsAllSeqSet, and the nodes of
\* one and of two levels, new(SeqSet) among them.
TrieLeaves == {Nil, ContainsAllSeqSet}
TriesOfOneLevel ==
    TrieLeaves \cup {TrieNode(a, b) : a \in TrieLeaves, b \in TrieLeaves}
Tries ==
    TrieLeaves
      \cup {TrieNode(a, b) : a \in TriesOfOneLevel, b \in TriesOfOneLevel}

\* Whether the trie has a node without a subSeqSet that is not
\* ContainsAllSeqSet, as new(SeqSet) is.
RECURSIVE HasEmptyNode(_)
HasEmptyNode(s) ==
    /\ s # Nil
    /\ ~s.hasAllSeq
    /\ \/ \A i \in 1..7 : s.subSeqSets[i] = Nil
       \/ \E i \in 1..7 : HasEmptyNode(s.subSeqSets[i])

\* The sequences the sets are asked about.
AskedSeqs == SeqsFromTo(TriePieces \cup {EmptyPiece}, 0, MaxPrefixLen)

SetOpCall(fn, a, b, x) == [fn |-> fn, this |-> a, other |-> b, sequence |-> x]

ReturnUnion ==
    /\ Calling("Union")
    /\ LET union == Union(call.this, call.other)
       IN  result' = [set |-> union,
                      contains |-> SeqSetContains(union, call.sequence)]
    /\ UNCHANGED callFrame

ReturnIntersection ==
    /\ Calling("Intersection")
    /\ LET intersect == Intersection(call.this, call.other)
       IN  result' = [set |-> intersect,
                      contains |-> SeqSetContains(intersect, call.sequence)]
    /\ UNCHANGED callFrame

InitSetOps ==
    /\ \E fn \in {"Union", "Intersection"}, a \in Tries, b \in Tries,
          x \in AskedSeqs : call = SetOpCall(fn, a, b, x)
    /\ result = NoResult
    /\ scores = <<>>
    /\ finished = <<>>
    /\ heap = <<>> /\ roots = <<>>
    /\ DriverUnused /\ EndStatesUnused /\ TrajectoryUnused /\ MDPUnused

NextSetOps ==
    \/ ReturnUnion
    \/ ReturnIntersection

SpecSetOps == InitSetOps /\ [][NextSetOps]_vars

\* Contains has returned true.
Holds(answer) == answer = Value(TRUE)

\* C21: for finite tries A and B, the nil pointer and ContainsAllSeqSet
\* among them, Union(A, B) contains a sequence exactly when A or B
\* contains it.
UnionContainsEither ==
    (call.fn = "Union" /\ result # NoResult) =>
        /\ Holds(result.contains)
             <=> \/ Holds(SeqSetContains(call.this, call.sequence))
                 \/ Holds(SeqSetContains(call.other, call.sequence))
        /\ EmptyPiece \notin Range(call.sequence) => result.contains # Panic

\* The union of two nodes of two levels contains a sequence that only the
\* second set contains.
UnionContainsEitherWitness ==
    /\ call.fn = "Union" /\ result # NoResult
    /\ call.this = TrieNode(TrieNode(ContainsAllSeqSet, Nil), Nil)
    /\ call.other = TrieNode(TrieNode(Nil, ContainsAllSeqSet), ContainsAllSeqSet)
    /\ call.sequence = <<T, I, T>>
    /\ Holds(result.contains)

\* Whether a finite trie contains no sequence at all.
RECURSIVE ContainsNone(_)
ContainsNone(s) ==
    \/ s = Nil
    \/ /\ ~s.hasAllSeq
       /\ \A i \in 1..7 : ContainsNone(s.subSeqSets[i])

\* Intersection(A, B) contains a sequence exactly when A and B contain it.
ContainsBoth ==
    /\ Holds(result.contains)
         <=> /\ Holds(SeqSetContains(call.this, call.sequence))
             /\ Holds(SeqSetContains(call.other, call.sequence))
    /\ EmptyPiece \notin Range(call.sequence) => result.contains # Panic

\* C22 as stated: for finite tries A and B, the nil pointer and
\* ContainsAllSeqSet among them, Intersection(A, B) contains a sequence
\* exactly when A and B contain it, and an intersection that contains no
\* sequence is the nil pointer.
EmptyIntersectionIsNil ==
    (call.fn = "Intersection" /\ result # NoResult) =>
        /\ ContainsBoth
        /\ ContainsNone(result.set) => result.set = Nil

\* C22: for finite tries A and B, the nil pointer and ContainsAllSeqSet
\* among them, Intersection(A, B) contains a sequence exactly when A and B
\* contain it; an intersection that contains no sequence is the nil pointer
\* when neither A nor B has a node without subSeqSets, as every set built
\* from prefixes is.
IntersectionContainsBoth ==
    (call.fn = "Intersection" /\ result # NoResult) =>
        /\ ContainsBoth
        /\ (~HasEmptyNode(call.this) /\ ~HasEmptyNode(call.other)) =>
               (ContainsNone(result.set) => result.set = Nil)

\* Two sets of two levels that share the first piece of a prefix and no
\* sequence: the intersection is the nil pointer.
IntersectionContainsBothWitness ==
    /\ call.fn = "Intersection" /\ result # NoResult
    /\ call.this = TrieNode(TrieNode(ContainsAllSeqSet, Nil), Nil)
    /\ call.other = TrieNode(TrieNode(Nil, ContainsAllSeqSet), Nil)
    /\ call.sequence = <<T, T>>
    /\ result.set = Nil

\* Two sets with a common sequence: the intersection contains it.
IntersectionCommonWitness ==
    /\ call.fn = "Intersection" /\ result # NoResult
    /\ call.this = TrieNode(ContainsAllSeqSet, ContainsAllSeqSet)
    /\ call.other = TrieNode(TrieNode(Nil, ContainsAllSeqSet), Nil)
    /\ call.sequence = <<T, I, T>>
    /\ Holds(result.contains)
\* ------------------------------------------------------------------------
\* SeqSet.Size and the permutation tries
\* ------------------------------------------------------------------------

\* AllPieceSets returns all 128 piece sets: the masks without the bit of
\* the Empty piece.
AllPieceSets == {2 * k : k \in 0..127}

\* The longest sequences whose number Size is asked for.
MaxSizeLen == 3

\* The sets whose Size is taken: a finite trie or a permutation trie, or
\* the union or the intersection of two of them, one of which is finite.
SizedBases == Tries \cup {PermutationsOf(bagUsed) : bagUsed \in BagsUsed}

SizedSet(op, a, b) ==
    IF op = "Union" THEN Union(a, b)
    ELSE IF op = "Intersection" THEN Intersection(a, b)
    ELSE a

SizeCall(op, a, b, length) ==
    [fn |-> "Size", op |-> op, this |-> a, other |-> b, length |-> length]

ReturnSize ==
    /\ Calling("Size")
    /\ LET set == SizedSet(call.op, call.this, call.other)
       IN  result' = [set |-> set, size |-> Size(set, call.length)]
    /\ UNCHANGED callFrame

\* Size is called on Permutations(bagUsed) for one of the lengths of
\* TestPermSize.
PermSizeCall(bagUsed, length) ==
    [fn |-> "PermSize", bagUsed |-> bagUsed, length |-> length]

ReturnPermSize ==
    /\ Calling("PermSize")
    /\ result' = Value(Size(PermutationsOf(call.bagUsed), call.length))
    /\ UNCHANGED callFrame

InitSize ==
    /\ \/ \E a \in SizedBases, length \in 0..MaxSizeLen :
              call = SizeCall("none", a, Nil, length)
       \/ \E op \in {"Union", "Intersection"}, a \in SizedBases, b \in Tries,
             length \in 0..MaxSizeLen :
              \/ call = SizeCall(op, a, b, length)
              \/ call = SizeCall(op, b, a, length)
       \/ \E bagUsed \in AllPieceSets, length \in {0, 1, 7} :
              call = PermSizeCall(bagUsed, length)
    /\ result = NoResult
    /\ scores = <<>>
    /\ finished = <<>>
    /\ heap = <<>> /\ roots = <<>>
    /\ DriverUnused /\ EndStatesUnused /\ TrajectoryUnused /\ MDPUnused

NextSize ==
    \/ ReturnSize
    \/ ReturnPermSize

SpecSize == InitSize /\ [][NextSize]_vars

\* The number of sequences of a length that a set contains.
Contained(set, length) ==
    Cardinality({x \in [1..length -> Pieces] : Holds(SeqSetContains(set, x))})

\* C23: for every SeqSet built from prefixes, ContainsAllSeqSet,
\* permutation tries and unions and intersections of these, and every
\* length, Size is the number of sequences of exactly that length that the
\* set contains.
SizeCountsContained ==
    (call.fn = "Size" /\ result # NoResult) =>
        result.size = Contained(result.set, call.length)

\* The same for the sets that are one finite trie or one permutation trie.
SizeCountsContainedInBase ==
    (call.fn = "Size" /\ result # NoResult /\ call.op = "none") =>
        result.size = Contained(result.set, call.length)

\* C25: for each of the 128 bags, Size of its permutation trie is 5040 for
\* length 7, 1 for length 0, and for length 1 the number of pieces that are
\* not in the bag (7 when the bag is full).
PermSizeOfBag ==
    (call.fn = "PermSize" /\ result # NoResult) =>
        result = Value(CASE call.length = 7 -> 5040
                         [] call.length = 0 -> 1
                         [] call.length = 1 ->
                                IF PieceSetLen(call.bagUsed) = 7 THEN 7
                                ELSE 7 - PieceSetLen(call.bagUsed))

\* TestPermSize: the bag that holds T has 5040 sequences of length 7.
PermSizeOfBagWitness ==
    /\ call.fn = "PermSize"
    /\ call.bagUsed = PieceSetOf(T)
    /\ call.length = 7
    /\ result = Value(5040)

\* The full bag has seven sequences of length 1.
PermSizeFullBagWitness ==
    /\ call.fn = "PermSize"
    /\ call.bagUsed = 254
    /\ call.length = 1
    /\ result = Value(7)

\* ------------------------------------------------------------------------
\* The permutation tries and the 7 bag randomizer
\* ------------------------------------------------------------------------

\* The longest of the sequences of every piece that are asked for, and the
\* sequences that go through a whole bag.
MaxPermSeqLen == 3

WholeBagSeqs ==
    {NonemptyPieces, NonemptyPieces \o <<T>>, NonemptyPieces \o <<I, I>>,
     <<I, O, Z, S, J, L, T, I>>, <<I, O, Z, S, J, L, I>>,
     <<T, L, J, S, Z, O, O>>, <<L, J, S, Z, O, I, T, I, O>>,
     <<L, J, S, Z, O, I, L>>, <<O, I, T, L, J, S, Z, O, I>>}

PermContainsCall(bagUsed, x) ==
    [fn |-> "PermContains", bagUsed |-> bagUsed, sequence |-> x]

ReturnPermContains ==
    /\ Calling("PermContains")
    /\ result' = SeqSetContains(PermutationsOf(call.bagUsed), call.sequence)
    /\ UNCHANGED callFrame

InitPermContains ==
    /\ \E bagUsed \in AllPieceSets :
           \/ \E n \in 0..MaxPermSeqLen :
                  \E x \in [1..n -> Pieces] : call = PermContainsCall(bagUsed, x)
           \/ \E x \in WholeBagSeqs : call = PermContainsCall(bagUsed, x)
    /\ result = NoResult
    /\ scores = <<>>
    /\ finished = <<>>
    /\ heap = <<>> /\ roots = <<>>
    /\ DriverUnused /\ EndStatesUnused /\ TrajectoryUnused /\ MDPUnused

NextPermContains ==
    \/ ReturnPermContains

SpecPermContains == InitPermContains /\ [][NextPermContains]_vars

\* Whether a 7 bag randomizer that has drawn the pieces of used from its
\* bag can produce x: each piece is absent from the bag at its turn, and the
\* bag restarts after its 7th piece.
RECURSIVE Produces(_, _)
Produces(used, x) ==
    LET inBag == IF Cardinality(used) = 7 THEN {} ELSE used
    IN  \/ x = <<>>
        \/ /\ Head(x) \notin inBag
           /\ Produces(inBag \cup {Head(x)}, Tail(x))

\* C24: for each of the 128 bags and every sequence of pieces, the
\* permutation trie of the bag contains the sequence exactly when a 7 bag
\* randomizer that has drawn the pieces of the bag can produce it.
PermutationsAreBagSeqs ==
    (call.fn = "PermContains" /\ result # NoResult) =>
        result = Value(Produces(PiecesOf(call.bagUsed), call.sequence))

\* A sequence that goes through the rest of a bag and into the next bag is
\* contained.
PermutationsAreBagSeqsWitness ==
    /\ call.fn = "PermContains"
    /\ call.bagUsed = PieceSetOf(T)
    /\ call.sequence = <<L, J, S, Z, O, I, L>>
    /\ result = Value(TRUE)

\* A sequence that repeats a piece of the bag is not contained.
PermutationsRepeatWitness ==
    /\ call.fn = "PermContains"
    /\ call.bagUsed = PieceSetOf(T)
    /\ call.sequence = <<L, J, L>>
    /\ result = Value(FALSE)

\* The full bag contains the sequences of the empty bag.
PermutationsFullBagWitness ==
    /\ call.fn = "PermContains"
    /\ call.bagUsed = 254
    /\ call.sequence = <<T, L, J>>
    /\ result = Value(TRUE)

\* ------------------------------------------------------------------------
\* SeqSet.GobEncode, SeqSet.GobDecode and SeqSet.Equals
\* ------------------------------------------------------------------------

\* The byte with the indices of subSeqSets counted from one.
nonNilMaskFromOne(s) ==
    LET mask(i) == IF s.subSeqSets[i] # Nil THEN 2 ^ i ELSE 0
    IN  (mask(1) + mask(2) + mask(3) + mask(4) + mask(5) + mask(6) + mask(7))
            % 256

\* encodeToBuffer: the byte that captures which indices are not nil, bit
\* idx for subSeqSets[idx], which is the set of the piece idx + 1.
nonNilMask(s) ==
    LET mask(i) == IF s.subSeqSets[i] # Nil THEN 2 ^ (i - 1) ELSE 0
    IN  mask(1) + mask(2) + mask(3) + mask(4) + mask(5) + mask(6) + mask(7)

\* encodeToBuffer: the bytes written to the buffer.
RECURSIVE encodeToBuffer(_)
encodeToBuffer(s) ==
    IF s.hasAllSeq THEN <<128>>
    ELSE IF s.permBag # <<>> THEN <<255, s.permBag[1]>>
    ELSE LET written == [i \in 1..7 |->
                            IF s.subSeqSets[i] # Nil
                            THEN encodeToBuffer(s.subSeqSets[i]) ELSE <<>>]
         IN  <<nonNilMask(s)>> \o written[1] \o written[2] \o written[3]
                 \o written[4] \o written[5] \o written[6] \o written[7]

\* GobEncode returns a bytes representation of the SeqSet.
GobEncode(s) ==
    IF s = Nil THEN encodeToBuffer(NewSeqSetNode) ELSE encodeToBuffer(s)

\* The error of a read from an empty buffer.
DecodeError == [err |-> "EOF"]

\* decodeFromBuffer returns the decoded SeqSet and the buffer that is left,
\* or the error; decodeSubSeqSets is its loop over the indices from idx.
RECURSIVE decodeFromBuffer(_)
RECURSIVE decodeSubSeqSets(_, _, _, _)
decodeFromBuffer(buf) ==
    IF buf = <<>> THEN DecodeError
    ELSE IF Head(buf) = 128
    THEN [set |-> ContainsAllSeqSet, buf |-> Tail(buf)]
    ELSE IF Head(buf) = 255
    THEN IF Tail(buf) = <<>> THEN DecodeError
         ELSE [set |-> PermutationsOf(buf[2]), buf |-> Tail(Tail(buf))]
    ELSE decodeSubSeqSets(Head(buf), 1, NewSeqSetNode, Tail(buf))

decodeSubSeqSets(b, idx, s, buf) ==
    IF idx > 7 THEN [set |-> s, buf |-> buf]
    ELSE IF ~Bit(b, idx - 1) THEN decodeSubSeqSets(b, idx + 1, s, buf)
    ELSE LET decoded == decodeFromBuffer(buf)
         IN  IF decoded = DecodeError THEN DecodeError
             ELSE decodeSubSeqSets(b, idx + 1,
                                   [s EXCEPT !.subSeqSets[idx] = decoded.set],
                                   decoded.buf)

\* GobDecode decodes a bytes representation of SeqSet into the receiver: the
\* receiver after the call, or the error.
GobDecode(data) ==
    LET decoded == decodeFromBuffer(data)
    IN  IF decoded = DecodeError THEN DecodeError
        ELSE [hasAllSeq |-> decoded.set.hasAllSeq,
              subSeqSets |-> decoded.set.subSeqSets,
              permBag |-> decoded.set.permBag]

\* Equals returns if two SeqSets are equal.
Equals(s, other) == GobEncode(s) = GobEncode(other)

\* The sets that are encoded: those of at most two prefixes, the set of
\* TestSeqSetEncodeDecode, the finite tries, and the permutation tries.
GobPrefixes == SeqsFromTo(PrefixPieces, 0, MaxPrefixLen)

GobCall(s) == [fn |-> "Gob", set |-> s]

\* TestSeqSetEncodeDecode: encode, decode into a new SeqSet, compare, and
\* encode again.
ReturnGob ==
    /\ Calling("Gob")
    /\ LET bytes1 == GobEncode(call.set)
           got == GobDecode(bytes1)
       IN  result' = IF got = DecodeError THEN DecodeError
                     ELSE [bytes1 |-> bytes1,
                           got |-> got,
                           equals |-> Equals(got, call.set),
                           bytes2 |-> GobEncode(got)]
    /\ UNCHANGED callFrame

InitGob ==
    /\ \/ \E first \in GobPrefixes :
              \/ call = GobCall(AddPrefix(NewSeqSetNode, first))
              \/ \E second \in GobPrefixes :
                     call = GobCall(AddPrefix(AddPrefix(NewSeqSetNode, first),
                                              second))
       \/ call = GobCall(AddPrefix(NewSeqSetNode, <<I, J, O>>))
       \/ \E s \in Tries : call = GobCall(s)
       \/ \E bagUsed \in AllPieceSets : call = GobCall(PermutationsOf(bagUsed))
    /\ result = NoResult
    /\ scores = <<>>
    /\ finished = <<>>
    /\ heap = <<>> /\ roots = <<>>
    /\ DriverUnused /\ EndStatesUnused /\ TrajectoryUnused /\ MDPUnused

NextGob ==
    \/ ReturnGob

SpecGob == InitGob /\ [][NextGob]_vars

\* C26: for every SeqSet built from prefixes, permutation tries and
\* ContainsAllSeqSet, the decoding of its encoding succeeds and yields a set
\* that Equals it, and the encoding of the decoded set is byte for byte the
\* first encoding.
DecodeOfEncodeEquals ==
    (call.fn = "Gob" /\ result # NoResult) =>
        /\ result # DecodeError
        /\ result.equals
        /\ result.bytes2 = result.bytes1

\* TestSeqSetEncodeDecode: the set of the prefix I J O.
DecodeOfEncodeEqualsWitness ==
    /\ call.fn = "Gob"
    /\ call.set = AddPrefix(NewSeqSetNode, <<I, J, O>>)
    /\ result # NoResult
    /\ result.bytes1 = <<64, 4, 32, 128>>
    /\ result.got = call.set
    /\ result.equals

\* The permutation trie of the bag with T is encoded in two bytes and
\* decoded as itself.
DecodeOfPermutationsWitness ==
    /\ call.fn = "Gob"
    /\ call.set = PermutationsOf(PieceSetOf(T))
    /\ result # NoResult
    /\ result.bytes2 = <<255, 2>>
    /\ result.got = call.set

\* ------------------------------------------------------------------------
\* tetris.Seq: NewSeq and Append
\* ------------------------------------------------------------------------

\* What NewSeq and Append return: a Seq and whether the error is not nil.
SeqReturned(seq, err) == [seq |-> seq, err |-> err]

\* Seq{}
ZeroSeq == [encoding |-> 0, len |-> 0]

\* NewSeq returns a Seq or an error if the length of the slice is over 7 or
\* contains empty pieces.
NewSeq(pieces) ==
    IF Len(pieces) > 7 THEN SeqReturned(ZeroSeq, TRUE)
    ELSE IF EmptyPiece \in Range(pieces) THEN SeqReturned(ZeroSeq, TRUE)
    ELSE SeqReturned(MustSeq(pieces), FALSE)

\* Append returns a new Seq with the piece appended. The encoding is a
\* uint32; with at most 7 slots of 4 bits the sum stays below 2^28.
SeqAppend(seq, p) ==
    IF seq.len >= 7 THEN SeqReturned(ZeroSeq, TRUE)
    ELSE SeqReturned([encoding |-> seq.encoding + p * (16 ^ seq.len),
                   len |-> seq.len + 1], FALSE)

\* The pieces of the calls: the Empty piece and the first, a middle and the
\* last of the others; and the longest slice given to NewSeq, apart from
\* the slices of TestNewSeq and a slice of 8 pieces.
SeqPieces == {EmptyPiece, T, S, I}
MaxNewSeqLen == 2

NewSeqSlices ==
    SeqsFromTo(SeqPieces, 0, MaxNewSeqLen)
        \cup {<<I, L, O>>, <<I, L, O, S, J, S, I>>,
              <<I, L, O, S, J, S, I, T>>}

NewSeqCall(pieces) == [fn |-> "NewSeq", pieces |-> pieces]

AppendCall(seq, p) == [fn |-> "Append", seq |-> seq, p |-> p]

\* NewSeq returns.
ReturnNewSeq ==
    /\ Calling("NewSeq")
    /\ result' = NewSeq(call.pieces)
    /\ UNCHANGED callFrame

\* Append is called on the Seq that the last successful call returned, and
\* returns.
CallAppend ==
    /\ call.fn \in {"NewSeq", "Append"}
    /\ result # NoResult
    /\ ~result.err
    /\ \E p \in SeqPieces :
           /\ call' = AppendCall(result.seq, p)
           /\ result' = SeqAppend(result.seq, p)
    /\ UNCHANGED <<scores, finished, heap, roots, notCallVars>>

InitSeq ==
    /\ \E pieces \in NewSeqSlices : call = NewSeqCall(pieces)
    /\ result = NoResult
    /\ scores = <<>>
    /\ finished = <<>>
    /\ heap = <<>> /\ roots = <<>>
    /\ DriverUnused /\ EndStatesUnused /\ TrajectoryUnused /\ MDPUnused

NextSeqOps ==
    \/ ReturnNewSeq
    \/ CallAppend

SpecSeq == InitSeq /\ [][NextSeqOps]_vars

\* The slot of a Seq: (seq.encoding >> (4 * idx)) & 15, idx from 0.
Slot(seq, idx) == (seq.encoding \div (16 ^ idx)) % 16

\* A call of NewSeq or Append has returned without an error.
Succeeded ==
    call.fn \in {"NewSeq", "Append"} /\ result # NoResult /\ ~result.err

\* C27: after any sequence of successful NewSeq and Append operations no
\* used slot of the Seq holds the Empty piece, all unused slots are zero,
\* and the length is at most 7; Append on a Seq of length 7 returns an error
\* and no new Seq.
SeqHoldsNoEmpty ==
    /\ Succeeded =>
           /\ \A idx \in 0..(result.seq.len - 1) :
                  Slot(result.seq, idx) # EmptyPiece
           /\ \A idx \in result.seq.len..7 : Slot(result.seq, idx) = 0
           /\ result.seq.len <= 7
    /\ (call.fn = "Append" /\ call.seq.len = 7) =>
           result = SeqReturned(ZeroSeq, TRUE)

\* The same without the used slots: the unused slots are zero, the length
\* is at most 7 and the slice is the pieces given, in their order; Append
\* on a Seq of length 7 returns an error and no new Seq.
SeqUnusedSlotsZero ==
    /\ Succeeded =>
           /\ \A idx \in result.seq.len..7 : Slot(result.seq, idx) = 0
           /\ result.seq.len <= 7
           /\ call.fn = "Append" =>
                  ToSlice(result.seq) = ToSlice(call.seq) \o <<call.p>>
           /\ call.fn = "NewSeq" => ToSlice(result.seq) = call.pieces
    /\ (call.fn = "Append" /\ call.seq.len = 7) =>
           result = SeqReturned(ZeroSeq, TRUE)

\* Append has returned a Seq of 7 pieces, and Append on it an error.
SeqOfSevenWitness ==
    /\ call.fn = "Append"
    /\ call.seq = MustSeq(<<I, L, O, S, J, S, I>>)
    /\ result = SeqReturned(ZeroSeq, TRUE)

\* Append of the Empty piece has succeeded.
AppendEmptyWitness ==
    /\ Succeeded
    /\ call.fn = "Append"
    /\ call.p = EmptyPiece
    /\ result.seq.len = 1
    /\ ToSlice(result.seq) = <<EmptyPiece>>

\* ------------------------------------------------------------------------
\* PieceSet: NewPieceSet, Add, Union and Inverted
\* ------------------------------------------------------------------------

\* ps &^ (1 << i)
ClearBit(ps, i) == IF Bit(ps, i) THEN ps - 2 ^ i ELSE ps

\* NewPieceSet creates a new PieceSet from the specified Pieces: the loop
\* over the pieces from idx, and the EmptyPiece zeroed out.
RECURSIVE addEach(_, _, _)
addEach(ps, pieces, idx) ==
    IF idx > Len(pieces) THEN ps
    ELSE addEach(Add(ps, pieces[idx]), pieces, idx + 1)

NewPieceSet(pieces) == ClearBit(addEach(0, pieces, 1), EmptyPiece)

\* Union returns the union of two PieceSets: ps | other.
PieceSetUnion(ps, other) ==
    SumBits({i \in 0..7 : Bit(ps, i) \/ Bit(other, i)})

\* Inverted returns a PieceSet that contains all Pieces not contained in
\* this PieceSet: (ps ^ 255) &^ (1 << EmptyPiece).
Inverted(ps) == ClearBit(255 - ps, EmptyPiece)

\* toSlice is the non-precomputed version of ToSlice; <<>> is the nil slice.
toSlice(ps) ==
    IF PieceSetLen(ps) = 0 THEN <<>>
    ELSE SelectSeq(NonemptyPieces, LAMBDA piece : Contains(ps, piece))

\* The pieces there are, the Empty piece included.
AnyPieces == Pieces \cup {EmptyPiece}

\* The longest slice given to NewPieceSet, apart from those of TestToSlice.
MaxSliceLen == 2

PieceSlices ==
    SeqsFromTo(AnyPieces, 0, MaxSliceLen)
        \cup {<<EmptyPiece, O>>, <<S, O, I>>, <<I, I, S>>}

\* The operations leave the PieceSet they return in result.
PieceSetCall(fn, arg) == [fn |-> fn, arg |-> arg]

HasPieceSet ==
    /\ call.fn \in {"NewPieceSet", "Add", "PieceSetUnion", "Inverted"}
    /\ result # NoResult

ReturnNewPieceSet ==
    /\ Calling("NewPieceSet")
    /\ result' = Value(NewPieceSet(call.arg))
    /\ UNCHANGED callFrame

CallAdd ==
    /\ HasPieceSet
    /\ \E p \in AnyPieces :
           /\ call' = PieceSetCall("Add", p)
           /\ result' = Value(Add(result.value, p))
    /\ UNCHANGED <<scores, finished, heap, roots, notCallVars>>

\* The other PieceSet of a Union is one from NewPieceSet, with a piece
\* added or not.
OtherPieceSets ==
    {NewPieceSet(pieces) : pieces \in PieceSlices}
        \cup {Add(NewPieceSet(pieces), p) :
                  pieces \in PieceSlices, p \in AnyPieces}

CallUnion ==
    /\ HasPieceSet
    /\ \E other \in OtherPieceSets :
           /\ call' = PieceSetCall("PieceSetUnion", other)
           /\ result' = Value(PieceSetUnion(result.value, other))
    /\ UNCHANGED <<scores, finished, heap, roots, notCallVars>>

CallInverted ==
    /\ HasPieceSet
    /\ call' = PieceSetCall("Inverted", <<>>)
    /\ result' = Value(Inverted(result.value))
    /\ UNCHANGED <<scores, finished, heap, roots, notCallVars>>

InitPieceSet ==
    /\ \E pieces \in PieceSlices : call = PieceSetCall("NewPieceSet", pieces)
    /\ result = NoResult
    /\ scores = <<>>
    /\ finished = <<>>
    /\ heap = <<>> /\ roots = <<>>
    /\ DriverUnused /\ EndStatesUnused /\ TrajectoryUnused /\ MDPUnused

NextPieceSet ==
    \/ ReturnNewPieceSet
    \/ CallAdd
    \/ CallUnion
    \/ CallInverted

SpecPieceSet == InitPieceSet /\ [][NextPieceSet]_vars

\* C28: after any sequence of NewPieceSet, Add, Union and Inverted with
\* arbitrary piece arguments the PieceSet does not contain the Empty piece,
\* its Len is between 0 and 7, and its slice does not list the Empty piece.
PieceSetHoldsNoEmpty ==
    HasPieceSet =>
        /\ ~Contains(result.value, EmptyPiece)
        /\ PieceSetLen(result.value) \in 0..7
        /\ EmptyPiece \notin Range(toSlice(result.value))

\* What holds of every PieceSet: its slice lists no Empty piece, is in the
\* order of NonemptyPieces and has the pieces of the set that are not Empty;
\* NewPieceSet and Inverted return sets without the Empty piece.
PieceSetSliceHoldsNoEmpty ==
    HasPieceSet =>
        /\ EmptyPiece \notin Range(toSlice(result.value))
        /\ Range(toSlice(result.value))
               = {p \in Pieces : Contains(result.value, p)}
        /\ call.fn \in {"NewPieceSet", "Inverted"} =>
               /\ ~Contains(result.value, EmptyPiece)
               /\ PieceSetLen(result.value) \in 0..7

\* Add of the Empty piece has returned a set that contains it.
AddEmptyWitness ==
    /\ HasPieceSet
    /\ call = PieceSetCall("Add", EmptyPiece)
    /\ Contains(result.value, EmptyPiece)

\* A PieceSet of eight items: the seven pieces and the Empty piece.
LenEightWitness ==
    /\ HasPieceSet
    /\ PieceSetLen(result.value) = 8

\* ------------------------------------------------------------------------
\* NewMDP (combo4/bot/mdp.go): the stable game states
\* ------------------------------------------------------------------------

\* NFA.EndStates: the loop over the pieces from idx, with cur the states
\* reached; the end states and the number of consumed pieces.
RECURSIVE endStatesFrom(_, _, _)
endStatesFrom(cur, pieces, idx) ==
    IF idx = Len(pieces) THEN [states |-> cur, consumed |-> Len(pieces)]
    ELSE LET after == UNION {Range(NextStates(st, pieces[idx + 1])) :
                                st \in cur}
         IN  IF after = {} THEN [states |-> cur, consumed |-> idx]
             ELSE endStatesFrom(after, pieces, idx + 1)

\* isStable: a GameState is considered stable if the current + preview can
\* be consumed.
isStable(previewLen, gState) ==
    LET start == Range(NextStates(gState.State, gState.Current))
    IN  endStatesFrom(start, ToSlice(gState.Preview), 0).consumed
            = previewLen

\* The lists lo to hi of a list of lists, one after the other.
RECURSIVE flattenRange(_, _, _)
flattenRange(lists, lo, hi) ==
    IF lo > hi THEN <<>>
    ELSE IF lo = hi THEN lists[lo]
    ELSE flattenRange(lists, lo, (lo + hi) \div 2)
             \o flattenRange(lists, ((lo + hi) \div 2) + 1, hi)

\* The lists of a list of lists from idx on, one after the other.
flatten(lists, idx) == flattenRange(lists, idx, Len(lists))

\* forEachSeqHelper: the sequences that do is called with, in the order of
\* the calls; prefix is seq[:seqIdx].
RECURSIVE forEachSeqHelper(_, _, _)
forEachSeqHelper(prefix, bagUsed, seqLen) ==
    LET used == IF PieceSetLen(bagUsed) = 7 THEN 0 ELSE bagUsed
        choices == toSlice(Inverted(used))
    IN  flatten([i \in 1..Len(choices) |->
                    IF Len(prefix) = seqLen - 1
                    THEN <<prefix \o <<choices[i]>>>>
                    ELSE forEachSeqHelper(prefix \o <<choices[i]>>,
                                          Add(used, choices[i]), seqLen)],
                1)

forEachSeq(bagUsed, seqLen) == forEachSeqHelper(<<>>, bagUsed, seqLen)

\* reversed[len(reversed)-1-i] = p
Reversed(list) == [i \in 1..Len(list) |-> list[Len(list) + 1 - i]]

\* The game states that the goroutine of a bag tests, in the order of its
\* loops: for each sequence, for each of the filtered states.
candidates(previewLen, filtered, bagUsed) ==
    LET seqs == forEachSeq(Inverted(bagUsed), previewLen + 1)
    IN  flatten([i \in 1..Len(seqs) |->
                    [j \in 1..Len(filtered) |->
                        GameState(filtered[j], Reversed(seqs[i])[1],
                                  MustSeq(Tail(Reversed(seqs[i]))),
                                  bagUsed)]],
                1)

\* A wait that returns at once.
WaitSkipped(counter) == TRUE

\* wg.Wait() returns when the counter of the WaitGroup is zero.
WaitOver(counter) == counter = 0

\* The number of bags of allBags, the capacity of stableCh and the capacity
\* of maxConcurrency.
MaxBuildBags == 3
StableChCap == 1
MaxWorkers == 2

\* The preview lengths, the bags that allBags is taken from, and the states
\* of the NFA that the loop over m.nfa.States() is taken from: a state that
\* it keeps, one with an empty hold and one that is swap restricted.
BuildPreviewLens == {1}

BuildSmallBags ==
    {PieceSetOf(T), Add(PieceSetOf(T), L), Add(Add(PieceSetOf(L), J), S)}

\* The bag that nothing was drawn from and the bag that everything was
\* drawn from: forEachSeq gives each of them every sequence of two pieces.
BuildWholeBags == {0, 254}

BuildBagPool == BuildSmallBags \cup BuildWholeBags

BuildStatePool ==
    {State(RightI, S, FALSE), State(LeftI, EmptyPiece, FALSE),
     State(LeftI, I, TRUE)}

\* The scores that the scorer of initPolicy gives the choices are an input
\* of the model: they grow or they fall along the choices.
ScorerRules == {"grow", "fall"}

scoresBy(rule, choices) ==
    [i \in 1..Len(choices) |-> IF rule = "grow" THEN i ELSE 0 - i]

\* initPolicy creates an initial policy based on what the scorer would do.
initPolicy(values, rule) ==
    [gState \in DOMAIN values |->
        LET choices == NextStates(gState.State, gState.Current)
        IN  scorePolicyNextState(choices, scoresBy(rule, choices))]

\* The orders in which the loop over the map m.nfa.States() can leave the
\* states it keeps in filteredStates.
FilteredOrders ==
    LET kept == {st \in BuildStatePool :
                    ~(st.SwapRestricted \/ st.Hold = EmptyPiece)}
    IN  {list \in [1..Cardinality(kept) -> kept] :
            \A i, j \in DOMAIN list : i # j => list[i] # list[j]}

\* AllPieceSets lists the bags in the order of their masks. A list of the
\* model holds at most one of the two whole bags.
BagLists ==
    {list \in [1..MaxBuildBags -> BuildBagPool] :
        /\ \A i \in 1..(MaxBuildBags - 1) : list[i] < list[i + 1]
        /\ Cardinality(Range(list) \cap BuildWholeBags) <= 1}

\* The game states the goroutine of the bag of an index tests; they are
\* fixed by what NewMDP is called with.
candidatesOf(idx) == building.candidates[idx]

\* The indexes of the game states of a list that are stable.
stableOf(previewLen, list) ==
    {k \in DOMAIN list : isStable(previewLen, list[k])}

\* NewMDP has made m, filteredStates and stableCh and has started the
\* goroutine that starts the workers.
InitNewMDP ==
    /\ \E previewLen \in BuildPreviewLens, list \in BagLists,
          filtered \in FilteredOrders :
            building = [previewLen |-> previewLen, allBags |-> list,
                        filteredStates |-> filtered,
                        candidates |->
                            [i \in 1..MaxBuildBags |->
                                candidates(previewLen, filtered, list[i])],
                        stable |->
                            [i \in 1..MaxBuildBags |->
                                stableOf(previewLen,
                                         candidates(previewLen, filtered,
                                                    list[i]))]]
    /\ buildPc = "collect"
    /\ launcher = [pc |-> "add", idx |-> 1]
    /\ bagWorker = [i \in 1..MaxBuildBags |-> [pc |-> "new", idx |-> 1]]
    /\ stableCh = [buf |-> <<>>, closed |-> FALSE]
    /\ maxConcurrency = 0
    /\ wg = 0
    /\ value = <<>> /\ policy = <<>>
    /\ game = <<>> /\ mdpPc = "unused" /\ caller = ""
    /\ valCurrent = <<>> /\ worker = <<>> /\ pending = {}
    /\ changed = 0 /\ calls = 0 /\ last = <<>> /\ settled = FALSE
    /\ DriverUnused /\ EndStatesUnused /\ TrajectoryUnused /\ CallsUnused

\* What NewMDP leaves alone.
notBuildVars ==
    <<game, mdpPc, caller, valCurrent, worker, pending, changed, calls, last,
      settled, building, driverVars, esVars, trajVars, callVars>>

\* wg.Add(len(allBags))
LauncherAdd ==
    /\ launcher.pc = "add"
    /\ wg' = wg + Len(building.allBags)
    /\ launcher' = [launcher EXCEPT !.pc = "loop"]
    /\ UNCHANGED <<value, policy, buildPc, bagWorker, stableCh,
                   maxConcurrency, notBuildVars>>

\* maxConcurrency <- true; go func() { ... }()
LauncherGo ==
    /\ launcher.pc = "loop"
    /\ launcher.idx <= Len(building.allBags)
    /\ maxConcurrency < MaxWorkers
    /\ maxConcurrency' = maxConcurrency + 1
    /\ bagWorker' = [bagWorker EXCEPT ![launcher.idx].pc = "run"]
    /\ launcher' = [launcher EXCEPT !.idx = launcher.idx + 1]
    /\ UNCHANGED <<value, policy, buildPc, stableCh, wg, notBuildVars>>

\* wg.Wait(); close(stableCh)
LauncherClose ==
    /\ launcher.pc = "loop"
    /\ launcher.idx > Len(building.allBags)
    /\ WaitOver(wg)
    /\ stableCh' = [stableCh EXCEPT !.closed = TRUE]
    /\ launcher' = [launcher EXCEPT !.pc = "done"]
    /\ UNCHANGED <<value, policy, buildPc, bagWorker, maxConcurrency, wg,
                   notBuildVars>>

\* One turn of the loop over filteredStates in a worker: if m.isStable(gState)
\* { stableCh <- gState }. The send waits while the channel is full and
\* panics when the channel is closed.
WorkerTest ==
    \E i \in DOMAIN bagWorker :
        /\ bagWorker[i].pc = "run"
        /\ bagWorker[i].idx <= Len(candidatesOf(i))
        /\ LET gState == candidatesOf(i)[bagWorker[i].idx]
           IN  IF ~isStable(building.previewLen, gState)
               THEN /\ bagWorker' =
                           [bagWorker EXCEPT ![i].idx = bagWorker[i].idx + 1]
                    /\ UNCHANGED stableCh
               ELSE IF stableCh.closed
               THEN /\ bagWorker' = [bagWorker EXCEPT ![i].pc = "panic"]
                    /\ UNCHANGED stableCh
               ELSE /\ Len(stableCh.buf) < StableChCap
                    /\ stableCh' = [stableCh EXCEPT
                                       !.buf = Append(stableCh.buf, gState)]
                    /\ bagWorker' =
                           [bagWorker EXCEPT ![i].idx = bagWorker[i].idx + 1]
        /\ UNCHANGED <<value, policy, buildPc, launcher, maxConcurrency, wg,
                       notBuildVars>>

\* defer wg.Done()
WorkerDone ==
    \E i \in DOMAIN bagWorker :
        /\ bagWorker[i].pc = "run"
        /\ bagWorker[i].idx > Len(candidatesOf(i))
        /\ wg' = wg - 1
        /\ bagWorker' = [bagWorker EXCEPT ![i].pc = "release"]
        /\ UNCHANGED <<value, policy, buildPc, launcher, stableCh,
                       maxConcurrency, notBuildVars>>

\* defer func() { <-maxConcurrency }()
WorkerRelease ==
    \E i \in DOMAIN bagWorker :
        /\ bagWorker[i].pc = "release"
        /\ maxConcurrency > 0
        /\ maxConcurrency' = maxConcurrency - 1
        /\ bagWorker' = [bagWorker EXCEPT ![i].pc = "done"]
        /\ UNCHANGED <<value, policy, buildPc, launcher, stableCh, wg,
                       notBuildVars>>

\* for gState := range stableCh { m.value[gState] = 1 }
Collect ==
    /\ buildPc = "collect"
    /\ stableCh.buf # <<>>
    /\ value' = (Head(stableCh.buf) :> 1) @@ value
    /\ stableCh' = [stableCh EXCEPT !.buf = Tail(stableCh.buf)]
    /\ UNCHANGED <<policy, buildPc, launcher, bagWorker, maxConcurrency, wg,
                   notBuildVars>>

\* The range over stableCh ends when the channel is closed and empty;
\* m.initPolicy(); return m, nil
NewMDPReturn ==
    /\ buildPc = "collect"
    /\ stableCh.buf = <<>>
    /\ stableCh.closed
    /\ \E rule \in ScorerRules : policy' = initPolicy(value, rule)
    /\ buildPc' = "returned"
    /\ UNCHANGED <<value, launcher, bagWorker, stableCh, maxConcurrency, wg,
                   notBuildVars>>

NextNewMDP ==
    \/ LauncherAdd
    \/ LauncherGo
    \/ LauncherClose
    \/ WorkerTest
    \/ WorkerDone
    \/ WorkerRelease
    \/ Collect
    \/ NewMDPReturn

SpecNewMDP == InitNewMDP /\ [][NextNewMDP]_vars

\* The bag a randomizer is left with is the bag of a game state: a full bag
\* is an empty bag.
SameBag(left, bagUsed) ==
    left = PiecesOf(bagUsed) \/ (Cardinality(left) = 7 /\ bagUsed = 0)

\* Whether some 7 bag randomizer draws the pieces x and is left with the bag.
ConsistentWith(bagUsed, x) ==
    \E before \in SUBSET Pieces :
        /\ AllDrawable(before, x)
        /\ SameBag(DrawAll(before, x), bagUsed)

\* The game states of the call whose state has a hold and is not swap
\* restricted, whose bag follows from the current piece and the preview,
\* and from whose state some trajectory of the NFA consumes the current
\* piece and then the whole preview.
StableGameStates ==
    {GameState(st, x[1], MustSeq(Tail(x)), building.allBags[i]) :
        <<st, x, i>> \in
            {<<st, x, i>> \in BuildStatePool
                                \X [1..(building.previewLen + 1) -> Pieces]
                                \X DOMAIN building.allBags :
                /\ st.Hold # EmptyPiece
                /\ ~st.SwapRestricted
                /\ ConsistentWith(building.allBags[i], x)
                /\ Reachable({st}, x) # {}}}

\* The stable game states the workers have found so far.
Found ==
    UNION {{candidatesOf(i)[k] :
               k \in building.stable[i] \cap 1..(bagWorker[i].idx - 1)} :
           i \in DOMAIN bagWorker}

\* C29: when NewMDP returns, the keys of m.value are exactly the stable game
\* states of the call, each with the value 1, and every worker has tested
\* all its game states and called wg.Done; at every moment each stable game
\* state a worker has found is in stableCh or in m.value, and no worker
\* sends on the closed channel.
NewMDPSeedsStable ==
    /\ buildPc # "unused" =>
           /\ Found \subseteq (Range(stableCh.buf) \cup DOMAIN value)
           /\ \A i \in DOMAIN bagWorker : bagWorker[i].pc # "panic"
    /\ buildPc = "returned" =>
           /\ DOMAIN value = StableGameStates
           /\ \A gState \in DOMAIN value : value[gState] = 1
           /\ \A i \in DOMAIN bagWorker :
                  /\ bagWorker[i].pc \in {"release", "done"}
                  /\ bagWorker[i].idx > Len(candidatesOf(i))

\* NewMDP has returned a value map with game states of the full bag and of
\* two other bags, and a policy that steps to a next state of the NFA.
NewMDPSeedsStableWitness ==
    /\ buildPc = "returned"
    /\ {PieceSetOf(T), Add(PieceSetOf(T), L), 254}
           = {gState.BagUsed : gState \in DOMAIN value}
    /\ \E gState \in DOMAIN policy :
           policy[gState] \in Range(NextStates(gState.State, gState.Current))

\* NewMDP has returned a value map with game states of the empty bag.
NewMDPEmptyBagWitness ==
    /\ buildPc = "returned"
    /\ 0 \in {gState.BagUsed : gState \in DOMAIN value}
    /\ Cardinality(DOMAIN value) > 20

\* Two workers run while stableCh is full and the collector has values.
WorkersWaitWitness ==
    /\ buildPc = "collect"
    /\ Len(stableCh.buf) = StableChCap
    /\ Cardinality({i \in DOMAIN bagWorker : bagWorker[i].pc = "run"}) >= 2
    /\ DOMAIN value # {}
    /\ \E gState \in Range(stableCh.buf) : gState.BagUsed = 0

\* ------------------------------------------------------------------------
\* UpdateValues (combo4/bot/mdp.go): the shard workers and a sequential run
\* ------------------------------------------------------------------------

\* The loop body of a worker run on one cell with nothing else running:
\* newVal := 1 + totalVal/c.possibilities; c.valCurrent = newVal.
sequentialCell(gm, pol, v, g) ==
    [v EXCEPT ![g] =
        NewVal(totalVal(v, dependencies(gm, pol, g)),
               Len(possibilities(gm, g, pol[g])))]

\* One pass with the workers run one after the other: the cells of vals in
\* their order, each one reading what the cells before it have written.
RECURSIVE sequentialPass(_, _, _, _)
sequentialPass(gm, pol, v, i) ==
    IF i > Len(vals) THEN v
    ELSE sequentialPass(gm, pol, sequentialCell(gm, pol, v, vals[i]), i + 1)

\* The passes are repeated until one has no change.  A value above MaxValue
\* is not followed, and no more passes than values can be raised.
RECURSIVE sequentialValues(_, _, _, _)
sequentialValues(gm, pol, v, passes) ==
    LET after == sequentialPass(gm, pol, v, 1)
    IN  IF after = v THEN v
        ELSE IF passes >= Len(vals) * MaxValue
                \/ \E g \in GameStates : after[g] > MaxValue
        THEN after
        ELSE sequentialValues(gm, pol, after, passes + 1)

\* C30: the values UpdateValues writes back to the map are the values that
\* the passes reach when the workers run one after the other from the same
\* map, whatever the workers have read of one another's cells.
UpdateValuesIsSequential ==
    [][UpdateValuesReturn =>
           value' = sequentialValues(game, policy, value, 0)]_vars

\* A worker has summed a dependency that another worker has raised since.
StaleRead(w) ==
    /\ worker[w].idx <= Len(Shard(w))
    /\ LET deps == dependencies(game, policy, Shard(w)[worker[w].idx])
       IN  /\ worker[w].dep > 0
           /\ worker[w].total
                  < totalVal(valCurrent, SubSeq(deps, 1, worker[w].dep))

\* UpdateValues is about to return values that differ from the map in two
\* cells at least, after UpdatePolicy has changed the policy.
UpdateValuesIsSequentialWitness ==
    /\ mdpPc = "UpdateValues" /\ PassDone /\ Converged(PassChanges)
    /\ last.call = "UpdatePolicy" /\ last.changes > 0
    /\ Cardinality({g \in GameStates : valCurrent[g] # value[g]}) >= 2
    /\ valCurrent = sequentialValues(game, policy, value, 0)

\* A worker holds a sum that is out of date while a second worker is in
\* the middle of its cell.
StaleReadWitness ==
    /\ mdpPc = "UpdateValues"
    /\ \E w1, w2 \in Workers :
           /\ w1 # w2
           /\ StaleRead(w1)
           /\ worker[w2].idx <= Len(Shard(w2))
           /\ worker[w2].dep > 0

\* ------------------------------------------------------------------------
\* UpdateValues (combo4/bot/mdp.go): termination
\* ------------------------------------------------------------------------

\* The game states from which the policy reaches a game state that is not a
\* key of m.value within n steps, with positive probability.
RECURSIVE reachesAbsent(_, _, _)
reachesAbsent(gm, pol, n) ==
    IF n = 0 THEN {}
    ELSE LET before == reachesAbsent(gm, pol, n - 1)
         IN  {g \in GameStates :
                 \E d \in Range(possibilities(gm, g, pol[g])) :
                     d = Absent \/ d \in before}

\* Under the policy every stable game state reaches an unstable one.
ValuesBounded(gm, pol) ==
    reachesAbsent(gm, pol, Cardinality(GameStates)) = GameStates

\* Every goroutine of a pass is scheduled, and so is the loop of
\* UpdateValues that receives their changes.
FairnessMDP ==
    /\ \A w \in Workers : WF_vars(WorkerRead(w)) /\ WF_vars(WorkerWrite(w))
    /\ WF_vars(PassAgain)
    /\ WF_vars(UpdateValuesReturn)

\* The games that termination is checked on: a part of Games, with cycles
\* through all three game states, with and without a way out of them.
LiveGames ==
    {Game(a1, a2, b2, c1) :
        a1 \in {<<3>>},
        a2 \in {<<2, 2>>},
        b2 \in {<<3>>, <<1, Absent>>, <<3, Absent>>},
        c1 \in {<<Absent, 3>>, <<1, 2>>}}

InitMDPLive ==
    /\ \E gm \in LiveGames :
           \E pol \in {f \in [GameStates -> 1..2] :
                           \A g \in GameStates : f[g] \in choicesOf(gm, g)} :
               NewMDP(gm, pol)
    /\ DriverUnused /\ EndStatesUnused /\ TrajectoryUnused /\ CallsUnused
    /\ BuildUnused

SpecMDPLive == InitMDPLive /\ [][NextMDP]_vars /\ FairnessMDP

\* C31: every UpdateValues whose policy leads every stable game state to an
\* unstable one returns, whatever the interleaving of the workers.
UpdateValuesTerminates ==
    (mdpPc = "UpdateValues" /\ ValuesBounded(game, policy))
        ~> (mdpPc # "UpdateValues")

\* A call of UpdateValues that needs a third pass at least, under a policy
\* that bounds the values.
UpdateValuesTerminatesWitness ==
    /\ mdpPc = "UpdateValues" /\ ValuesBounded(game, policy)
    /\ PassDone /\ ~Converged(PassChanges)
    /\ \E g \in GameStates : valCurrent[g] >= 3

\* UpdateValues has returned changed values under such a policy.
UpdateValuesReturnedWitness ==
    /\ mdpPc # "UpdateValues" /\ ValuesBounded(game, policy)
    /\ last.call = "UpdateValues" /\ last.changes >= 2

\* ------------------------------------------------------------------------
\* UpdatePolicy (combo4/bot/mdp.go): what a pass changes
\* ------------------------------------------------------------------------

\* The game states whose policy entry or value a step writes.
Written == {g \in GameStates : policy'[g] # policy[g] \/ value'[g] # value[g]}

\* C32: a step of UpdatePolicy changes policy[g] only to a choice whose
\* calcValue is strictly greater than the calcValue of the current choice;
\* it then sets value[g] to that value and counts one change; the policy
\* entries and values of all other game states stay as they are, and a
\* game state whose choice is kept keeps its value.
UpdatePolicyOnlyImproves ==
    [][mdpPc = "UpdatePolicy" =>
           /\ Cardinality(Written) <= 1
           /\ \A g \in Written :
                  /\ policy'[g] # policy[g]
                  /\ policy'[g] \in choicesOf(game, g)
                  /\ calcValue(game, value, g, policy'[g])
                         > calcValue(game, value, g, policy[g])
                  /\ value'[g] = calcValue(game, value, g, policy'[g])
                  /\ changed' = changed + 1
           /\ (Written = {} /\ mdpPc' = "UpdatePolicy") => changed' = changed
      ]_vars

\* UpdatePolicy has changed a choice and raised the value of the game state
\* by two at least, and goes on with a game state that has two choices of
\* the same calcValue.
UpdatePolicyOnlyImprovesWitness ==
    /\ mdpPc = "UpdatePolicy" /\ changed >= 1
    /\ \E g \in GameStates \ pending :
           value[g] >= valCurrent[g] + 2
    /\ \E g \in pending :
           /\ Len(game[g]) = 2
           /\ calcValue(game, value, g, 1) = calcValue(game, value, g, 2)

\* ------------------------------------------------------------------------
\* MDP.possibilities (combo4/bot/mdp.go): the game states after a choice
\* ------------------------------------------------------------------------

\* Seq.AtIndex: the piece of a slot; an unused slot holds the Empty piece.
AtIndex(seq, idx) == (seq.encoding \div (16 ^ idx)) % 16

\* Seq.RemoveFirst: every piece moves one slot down.
RemoveFirst(seq) ==
    [encoding |-> seq.encoding \div 16,
     len |-> IF seq.len = 0 THEN 0 ELSE seq.len - 1]

\* Seq.SetIndex: the slot gets the piece; the index is checked against the
\* 7 slots and may not skip past the first unused slot.
SetIndex(seq, idx, p) ==
    IF idx < 0 \/ idx >= 7 \/ idx > seq.len THEN Panic
    ELSE Value([encoding |->
                    seq.encoding - (AtIndex(seq, idx) * (16 ^ idx))
                        + (p * (16 ^ idx)),
                len |-> IF idx = seq.len THEN seq.len + 1 ELSE seq.len])

\* Mutant of newBagOf: the piece is added to the bag as it is.
newBagOfUnreset(bagUsed, p) == Add(bagUsed, p)

\* newBag: p.PieceSet() when cur.BagUsed is full, bag.Add(p) otherwise.
newBagOf(bagUsed, p) ==
    IF PieceSetLen(bagUsed) = 7 THEN PieceSetOf(p)
    ELSE Add(ResetBag(bagUsed), p)

\* m.possibilities: one game state per piece the bag can deal next, with the
\* choice as state, the first piece of the preview as current piece and the
\* dealt piece at the end of the preview.  A SetIndex that fails makes the
\* call panic.
possibilitiesOf(previewLen, cur, choice) ==
    LET previewShifted == RemoveFirst(cur.Preview)
        possibleNextPiece == toSlice(Inverted(ResetBag(cur.BagUsed)))
        set == [i \in DOMAIN possibleNextPiece |->
                   SetIndex(previewShifted, previewLen - 1,
                            possibleNextPiece[i])]
    IN  IF \E i \in DOMAIN set : set[i] = Panic THEN Panic
        ELSE Value([i \in DOMAIN possibleNextPiece |->
                       GameState(choice, AtIndex(cur.Preview, 0),
                                 set[i].value,
                                 newBagOf(cur.BagUsed,
                                          possibleNextPiece[i]))])

\* The states NewMDP keeps in filteredStates.
FilteredStates ==
    {st \in States : ~(st.SwapRestricted \/ st.Hold = EmptyPiece)}

\* The preview lengths of the calls, and the state whose game states are
\* taken with every bag and every sequence of pieces.
PossPreviewLens == {1, 2}

PossStatePool == {State(RightI, S, FALSE)}

PossibilitiesCall(previewLen, cur, choice) ==
    [fn |-> "possibilities", previewLen |-> previewLen, cur |-> cur,
     choice |-> choice]

\* The calls of calcValue in UpdatePolicy and of possibilities in
\* UpdateValues: a game state that NewMDP tests and a choice of the NFA for
\* it.  Every bag and every sequence with the states of PossStatePool;
\* every filtered state and every current piece with one bag and preview.
InitPossibilities ==
    /\ \E previewLen \in PossPreviewLens :
           \/ \E st \in PossStatePool, bagUsed \in AllPieceSets :
                  \E cur \in Range(candidates(previewLen, <<st>>, bagUsed)) :
                      \E choice \in Range(NextStates(cur.State, cur.Current)) :
                          call = PossibilitiesCall(previewLen, cur, choice)
           \/ /\ previewLen = 1
              /\ \E st \in FilteredStates :
                     \E cur \in Range(candidates(previewLen, <<st>>,
                                                 PieceSetOf(T))) :
                         \E choice \in
                                Range(NextStates(cur.State, cur.Current)) :
                             call = PossibilitiesCall(previewLen, cur, choice)
    /\ result = NoResult /\ scores = <<>> /\ finished = <<>>
    /\ heap = <<>> /\ roots = <<>>
    /\ DriverUnused /\ EndStatesUnused /\ TrajectoryUnused /\ MDPUnused

\* m.possibilities returns.
ReturnPossibilities ==
    /\ Calling("possibilities")
    /\ result' = possibilitiesOf(call.previewLen, call.cur, call.choice)
    /\ UNCHANGED callFrame

NextPossibilities == \/ ReturnPossibilities

SpecPossibilities == InitPossibilities /\ [][NextPossibilities]_vars

\* The current piece and the preview of a game state, in the order dealt.
Dealt(gState) == <<gState.Current>> \o ToSlice(gState.Preview)

\* NewMDP tests the game state for stability.
Enumerated(previewLen, gState) ==
    /\ gState.State \in FilteredStates
    /\ gState.BagUsed \in AllPieceSets
    /\ gState \in Range(candidates(previewLen, <<gState.State>>,
                                   gState.BagUsed))

\* C34: every game state that possibilities returns for a game state that
\* NewMDP tests and a choice of the NFA is a game state that NewMDP tests:
\* its state has a hold and is not swap restricted, its preview has
\* previewLen pieces and its bag follows the 7 bag from its pieces; so it
\* is a key of the value map unless it is not stable.
PossibilitiesStayInDomain ==
    (call # <<>> /\ call.fn = "possibilities") =>
        /\ ConsistentWith(call.cur.BagUsed, Dealt(call.cur))
        /\ result # NoResult =>
               /\ result # Panic
               /\ Len(result.value) >= 1
               /\ \A i \in DOMAIN result.value :
                      LET nxt == result.value[i]
                      IN  /\ nxt.State = call.choice
                          /\ nxt.State.Hold # EmptyPiece
                          /\ ~nxt.State.SwapRestricted
                          /\ nxt.Preview.len = call.previewLen
                          /\ EmptyPiece \notin Range(Dealt(nxt))
                          /\ ConsistentWith(nxt.BagUsed, Dealt(nxt))
                          /\ Enumerated(call.previewLen, nxt)

\* possibilities has returned the seven game states after a full bag, each
\* with a bag of one piece.
PossibilitiesStayInDomainWitness ==
    /\ call # <<>> /\ call.fn = "possibilities" /\ result # NoResult
    /\ result # Panic
    /\ call.cur.BagUsed = 254 /\ call.previewLen = 2
    /\ Len(result.value) = 7
    /\ \A i \in DOMAIN result.value :
           PieceSetLen(result.value[i].BagUsed) = 1

\* possibilities has returned game states that complete the bag.
PossibilitiesCompleteBagWitness ==
    /\ call # <<>> /\ call.fn = "possibilities" /\ result # NoResult
    /\ result # Panic
    /\ PieceSetLen(call.cur.BagUsed) = 6
    /\ \A i \in DOMAIN result.value : result.value[i].BagUsed = 254

\* ------------------------------------------------------------------------
\* The game driver and MDP.possibilities
\* ------------------------------------------------------------------------

\* The driver has received a piece that the 7 bag can deal, after a query
\* that returned a state, and has queried the policy again.
DriverQueriedAgain ==
    /\ pc = "recv" /\ pc' = "send"
    /\ state # Nil
    /\ legal'

\* C35: the current piece, the preview and the bag of a query that the
\* driver makes for a piece the 7 bag can deal are those of the game state
\* that possibilities gives for that piece from the game state of the
\* query before, with the state the driver holds as choice. The preview
\* has 1 to 7 pieces: NewMDP wants a previewLen between 1 and 7, and there
\* is no MDP for a driver without preview or with a longer one.
DriverStepIsPossibility ==
    [][(DriverQueriedAgain /\ Len(next) >= 1 /\ Len(next) <= 7) =>
           LET poss == possibilitiesOf(Len(next),
                                       GameState(state, current,
                                                 MustSeq(next), bag),
                                       state)
           IN  /\ poss # Panic
               /\ GameState(state, current', MustSeq(next'), bag')
                      \in Range(poss.value)
               /\ \A i \in DOMAIN poss.value :
                      AtIndex(poss.value[i].Preview, Len(next) - 1)
                              = lastInput'
                          => poss.value[i]
                                 = GameState(state, current', MustSeq(next'),
                                             bag')
      ]_vars

\* The driver has queried the policy for the piece that starts a new bag,
\* after the pieces it received had filled the bag.
DriverStepIsPossibilityWitness ==
    /\ pc = "send" /\ legal /\ state # Nil
    /\ Len(next) = 1 /\ consumed = 6
    /\ bag = PieceSetOf(lastInput)

\* The driver has queried the policy with a preview of two pieces and a
\* bag of five.
DriverStepLongPreviewWitness ==
    /\ pc = "send" /\ legal /\ state # Nil
    /\ Len(next) = 2 /\ consumed >= 2
    /\ PieceSetLen(bag) = 5

\* ------------------------------------------------------------------------
\* MDP (combo4/bot/mdp.go): the maps m.value and m.policy
\* ------------------------------------------------------------------------

\* At most MaxMapCalls calls of UpdateValues and UpdatePolicy are followed.
MaxMapCalls == 2

\* The bags of allBags that the maps are built for: the bag that all
\* pieces but one were drawn from, and the bag that all were drawn from.
\* The one possibility of a game state of the first is of the second.
MapBagLists == {<<ClearBit(254, p), 254>> : p \in {T, I}}

\* The states that the loop over m.nfa.States() keeps, in its order.
MapFilteredLists ==
    {<<State(LeftI, S, FALSE)>>, <<State(RightI, S, FALSE)>>,
     <<State(LeftI, I, FALSE), State(LeftI, S, FALSE)>>}

\* m.value[gState]: a game state that is not a key reads as 0.
mapValue(values, gState) ==
    IF gState \in DOMAIN values THEN values[gState] ELSE 0

\* m[key] = elem
mapAssign(map, key, elem) == (key :> elem) @@ map

\* Mutant of policyChoices: the choices of the first piece of the preview.
policyChoicesOfPreview(gState) ==
    NextStates(gState.State, AtIndex(gState.Preview, 0))

\* choices := m.nfa.NextStates(gState.State, gState.Current)
policyChoices(gState) == NextStates(gState.State, gState.Current)

RECURSIVE mapTotalVal(_, _, _)
mapTotalVal(values, poss, idx) ==
    IF idx > Len(poss) THEN 0
    ELSE mapValue(values, poss[idx]) + mapTotalVal(values, poss, idx + 1)

\* calcValue: 1 + totalVal/len(poss) over m.possibilities(cur, choice).
mdpCalcValue(previewLen, values, cur, choice) ==
    LET possList == possibilitiesOf(previewLen, cur, choice).value
    IN  1 + (mapTotalVal(values, possList, 1) \div Len(possList))

\* The loop of UpdatePolicy over the choices from idx on.
RECURSIVE mdpBestOf(_, _, _, _, _, _)
mdpBestOf(previewLen, values, gState, choices, idx, sofar) ==
    IF idx > Len(choices) THEN sofar
    ELSE LET tried == choices[idx]
             triedVal == mdpCalcValue(previewLen, values, gState, tried)
         IN  mdpBestOf(previewLen, values, gState, choices, idx + 1,
                       IF tried # sofar.currentChoice
                          /\ triedVal > sofar.bestVal
                       THEN [sofar EXCEPT !.bestVal = triedVal,
                                         !.bestChoice = tried]
                       ELSE sofar)

\* The body of the loop of UpdatePolicy for gState, after choices is
\* assigned; m holds the two maps and the count of changes.
policyVisit(previewLen, m, gState, nextChoices) ==
    LET currentChoice == m.policy[gState]
        obvious == IF Len(nextChoices) = 1
                   THEN mapAssign(m.policy, gState, nextChoices[1])
                   ELSE m.policy
        found == mdpBestOf(previewLen, m.value, gState, nextChoices, 1,
                    [currentChoice |-> currentChoice,
                     bestChoice |-> currentChoice,
                     bestVal |-> mdpCalcValue(previewLen, m.value, gState,
                                              currentChoice)])
    IN  IF currentChoice # found.bestChoice
        THEN [policy |-> mapAssign(obvious, gState, found.bestChoice),
              value |-> mapAssign(m.value, gState, found.bestVal),
              changed |-> m.changed + 1]
        ELSE [m EXCEPT !.policy = obvious]

\* UpdateValues: the dependencies of a cell are the cells of the
\* possibilities that are keys of cMap; newVal of the cell.
cellNewVal(previewLen, cells, policies, gState) ==
    LET possList == possibilitiesOf(previewLen, gState,
                                    policies[gState]).value
    IN  1 + (mapTotalVal(cells, possList, 1) \div Len(possList))

\* The orders in which a range over a map with these keys is followed: the
\* order of the list and its reverse.
RangeOrders(keys) ==
    {keys, Reversed(keys)}

\* NewMDP has made m and filteredStates; tested lists the game states
\* that the goroutines of the bags test, in the order of the bags.
InitMDPMaps ==
    /\ \E previewLen \in BuildPreviewLens, bagList \in MapBagLists,
          filtered \in MapFilteredLists, rule \in ScorerRules :
            building = [previewLen |-> previewLen,
                        allBags |-> bagList,
                        filteredStates |-> filtered,
                        rule |-> rule,
                        tested |->
                            flatten([i \in 1..Len(bagList) |->
                                        candidates(previewLen, filtered,
                                                   bagList[i])],
                                    1),
                        keys |-> <<>>]
    /\ buildPc = "collect" /\ launcher = <<>> /\ bagWorker = <<>>
    /\ stableCh = <<>> /\ maxConcurrency = 0 /\ wg = 0
    /\ game = <<>> /\ value = <<>> /\ policy = <<>>
    /\ mdpPc = "NewMDP" /\ caller = "" /\ valCurrent = <<>>
    /\ worker = <<>> /\ pending = {} /\ changed = 0 /\ calls = 0
    /\ last = [call |-> "NewMDP", changes |-> 0] /\ settled = FALSE
    /\ DriverUnused /\ EndStatesUnused /\ TrajectoryUnused /\ CallsUnused

mapsBuildFrame ==
    <<driverVars, esVars, trajVars, callVars, launcher, bagWorker, stableCh,
      maxConcurrency, wg, game, caller, valCurrent, worker, pending,
      changed, calls, last, settled>>

\* The range over stableCh has ended: m.value is 1 for the game states
\* that were found stable (NewMDPSeedsStable).
MapsCollect ==
    /\ buildPc = "collect"
    /\ building' =
          [building EXCEPT
              !.keys = SelectSeq(building.tested,
                           LAMBDA gState :
                               isStable(building.previewLen, gState))]
    /\ value' = [gState \in Range(building'.keys) |-> 1]
    /\ buildPc' = "initPolicy"
    /\ UNCHANGED <<mapsBuildFrame, policy, mdpPc>>

\* m.initPolicy(), and NewMDP returns m.
MapsInitPolicy ==
    /\ buildPc = "initPolicy"
    /\ policy' = initPolicy(value, building.rule)
    /\ buildPc' = "returned" /\ mdpPc' = "idle"
    /\ UNCHANGED <<mapsBuildFrame, building, value>>

mapsFrame ==
    <<driverVars, esVars, trajVars, callVars, buildVars, game, caller,
      pending, settled>>

\* A loop over a map has taken its keys in this order and is at idx;
\* choices is the local variable of the loop of UpdatePolicy and assigned
\* tells whether the turn of the loop has assigned it.
Ranging(order) ==
    [order |-> order, idx |-> 1, changes |-> 0, choices |-> <<>>,
     assigned |-> FALSE]

\* m.UpdatePolicy() is called: the range over m.policy begins.
MapsUpdatePolicy ==
    /\ mdpPc = "idle" /\ calls < MaxMapCalls
    /\ \E order \in RangeOrders(building.keys) :
          worker' = Ranging(order)
    /\ mdpPc' = "UpdatePolicy" /\ changed' = 0
    /\ calls' = calls + 1
    /\ UNCHANGED <<mapsFrame, value, policy, valCurrent, last>>

\* A turn of the loop of UpdatePolicy begins: choices is assigned.
MapsPolicyChoices ==
    /\ mdpPc = "UpdatePolicy" /\ worker.idx <= Len(worker.order)
    /\ ~worker.assigned
    /\ worker' = [worker EXCEPT
                     !.choices = policyChoices(worker.order[worker.idx]),
                     !.assigned = TRUE]
    /\ UNCHANGED <<mapsFrame, value, policy, mdpPc, valCurrent, changed,
                   calls, last>>

\* The rest of the turn of the loop of UpdatePolicy.
MapsPolicyVisit ==
    /\ mdpPc = "UpdatePolicy" /\ worker.idx <= Len(worker.order)
    /\ worker.assigned
    /\ LET visited == policyVisit(building.previewLen,
                                  [policy |-> policy, value |-> value,
                                   changed |-> changed],
                                  worker.order[worker.idx],
                                  worker.choices)
       IN  /\ policy' = visited.policy
           /\ value' = visited.value
           /\ changed' = visited.changed
    /\ worker' = [worker EXCEPT !.idx = @ + 1, !.choices = <<>>,
                                !.assigned = FALSE]
    /\ UNCHANGED <<mapsFrame, mdpPc, valCurrent, calls, last>>

\* UpdatePolicy returns changed.
MapsPolicyReturn ==
    /\ mdpPc = "UpdatePolicy" /\ worker.idx > Len(worker.order)
    /\ mdpPc' = "idle" /\ worker' = <<>>
    /\ last' = [call |-> "UpdatePolicy", changes |-> changed]
    /\ UNCHANGED <<mapsFrame, value, policy, valCurrent, changed, calls>>

\* m.UpdateValues() is called: vals and cMap are made from the keys and
\* the values of m.value, in the order of the range over it.
MapsUpdateValues ==
    /\ mdpPc = "idle" /\ calls < MaxMapCalls
    /\ \E order \in RangeOrders(building.keys) :
          worker' = Ranging(order)
    /\ valCurrent' = [gState \in DOMAIN value |-> value[gState]]
    /\ mdpPc' = "UpdateValues"
    /\ calls' = calls + 1
    /\ UNCHANGED <<mapsFrame, value, policy, changed, last>>

\* One cell of a pass.  The shards are passed over one after the other,
\* which gives the cells that every schedule of the workers ends with
\* (UpdateValuesIsSequential).
MapsValuesCell ==
    /\ mdpPc = "UpdateValues" /\ worker.idx <= Len(worker.order)
    /\ LET cell == worker.order[worker.idx]
           newVal == cellNewVal(building.previewLen, valCurrent, policy,
                                cell)
       IN  IF newVal # valCurrent[cell]
           THEN /\ valCurrent' = mapAssign(valCurrent, cell, newVal)
                /\ worker' = [worker EXCEPT !.idx = @ + 1,
                                            !.changes = @ + 1]
           ELSE /\ valCurrent' = valCurrent
                /\ worker' = [worker EXCEPT !.idx = @ + 1]
    /\ UNCHANGED <<mapsFrame, value, policy, mdpPc, changed, calls, last>>

\* The end of a pass: another pass, or the loop that updates the map.
MapsValuesPassEnd ==
    /\ mdpPc = "UpdateValues" /\ worker.idx > Len(worker.order)
    /\ worker' = Ranging(worker.order)
    /\ mdpPc' = IF Converged(worker.changes) THEN "WriteBack"
                ELSE "UpdateValues"
    /\ UNCHANGED <<mapsFrame, value, policy, valCurrent, changed, calls,
                   last>>

\* Update the values map: one turn of the loop over vals.
MapsWriteBack ==
    /\ mdpPc = "WriteBack" /\ worker.idx <= Len(worker.order)
    /\ LET cell == worker.order[worker.idx]
       IN  IF mapValue(value, cell) # valCurrent[cell]
           THEN /\ value' = mapAssign(value, cell, valCurrent[cell])
                /\ worker' = [worker EXCEPT !.idx = @ + 1,
                                            !.changes = @ + 1]
           ELSE /\ value' = value
                /\ worker' = [worker EXCEPT !.idx = @ + 1]
    /\ UNCHANGED <<mapsFrame, policy, mdpPc, valCurrent, changed, calls,
                   last>>

\* UpdateValues returns totalChanges.
MapsValuesReturn ==
    /\ mdpPc = "WriteBack" /\ worker.idx > Len(worker.order)
    /\ mdpPc' = "idle" /\ valCurrent' = <<>>
    /\ last' = [call |-> "UpdateValues", changes |-> worker.changes]
    /\ worker' = <<>>
    /\ UNCHANGED <<mapsFrame, value, policy, changed, calls>>

NextMDPMaps ==
    \/ MapsCollect
    \/ MapsInitPolicy
    \/ MapsUpdatePolicy
    \/ MapsPolicyChoices
    \/ MapsPolicyVisit
    \/ MapsPolicyReturn
    \/ MapsUpdateValues
    \/ MapsValuesCell
    \/ MapsValuesPassEnd
    \/ MapsWriteBack
    \/ MapsValuesReturn

SpecMDPMaps == InitMDPMaps /\ [][NextMDPMaps]_vars

\* C33: after NewMDP and any calls of UpdateValues and UpdatePolicy, the
\* value map and the policy map have the keys they had at construction,
\* and the policy of every key is one of the NFA's next states for the
\* state and the current piece of the key.
MapsKeepKeys ==
    buildPc = "returned" =>
        /\ DOMAIN value = Range(building.keys)
        /\ DOMAIN policy = Range(building.keys)
        /\ \A gState \in DOMAIN policy :
              policy[gState]
                  \in Range(NextStates(gState.State, gState.Current))

\* UpdateValues has changed values and UpdatePolicy has then changed the
\* policy of a key.
MapsKeepKeysWitness ==
    /\ buildPc = "returned" /\ mdpPc = "idle"
    /\ calls >= 2
    /\ last.call = "UpdatePolicy" /\ last.changes > 0
    /\ \E gState \in DOMAIN value : value[gState] > 1

\* UpdateValues has written values back.
MapsValuesWrittenWitness ==
    /\ buildPc = "returned" /\ mdpPc = "idle"
    /\ last.call = "UpdateValues" /\ last.changes > 0
    /\ \E gState \in DOMAIN value : value[gState] > 1

\* ------------------------------------------------------------------------
\* NFAScorer.inviableSeqs: the order of the end states
\* ------------------------------------------------------------------------

\* The end states and the bags of the calls whose order is followed.
OrderStatePool ==
    {st \in States : /\ st.Field \in {LeftI, RightI}
                     /\ st.Hold \in {I, S}}

OrderBags == {PieceSetOf(I), Add(PieceSetOf(I), J), 254 - PieceSetOf(T)}

\* The orders of the end states of a slice.
EndStateOrders(states) ==
    {other \in [1..Len(states) -> Range(states)] :
        Range(other) = Range(states)}

\* endStates.Slice() gives the end states in the order of the range over
\* the map, which is any order.
InitInviableOrders ==
    /\ \E n \in 1..MaxPermLen, bagUsed \in OrderBags,
          states \in SeqsFromTo(OrderStatePool, 0, MaxEndStates) :
            /\ \A i, j \in DOMAIN states : i # j => states[i] # states[j]
            /\ call = InviableSeqsCall(n, states, bagUsed)
    /\ result = NoResult
    /\ scores = <<>>
    /\ finished = <<>>
    /\ heap = <<>> /\ roots = <<>>
    /\ DriverUnused /\ EndStatesUnused /\ TrajectoryUnused /\ MDPUnused

\* inviableSeqs: sort.Slice leaves the states in an order in which no state
\* has fewer inviable sequences than the one before it; the states are
\* intersected in that order.
SortedInviableSeqs ==
    /\ Calling("inviableSeqs")
    /\ \E ordered \in EndStateOrders(call.states) :
          /\ Sorted(scorers[call.permLen], ordered)
          /\ result' = Value(inviableSeqs(scorers[call.permLen], ordered,
                                          call.bagUsed))
    /\ UNCHANGED callFrame

NextInviableOrders ==
    \/ SortedInviableSeqs

SpecInviableOrders == InitInviableOrders /\ [][NextInviableOrders]_vars

\* C36: the invalid permutations of a score are the same for every order in
\* which the end states are intersected, so that they are fixed by the set
\* of end states and the bag.
InviableSeqsAnyOrder ==
    (call.fn = "inviableSeqs" /\ result # NoResult) =>
        \A other \in EndStateOrders(call.states) :
            Value(inviableSeqs(scorers[call.permLen], other, call.bagUsed))
                = result

\* Two end states with as many inviable sequences and not the same: the
\* sort can leave them in either order, and some sequences that continue
\* the bag are inviable for both.
InviableSeqsAnyOrderWitness ==
    /\ call.fn = "inviableSeqs" /\ result # NoResult
    /\ Len(call.states) = 2
    /\ inviableSizes(scorers[call.permLen], call.states[1])
           = inviableSizes(scorers[call.permLen], call.states[2])
    /\ inviableOf(scorers[call.permLen].inviable, call.states[1])
           # inviableOf(scorers[call.permLen].inviable, call.states[2])
    /\ result.value > 0
    /\ result.value < Cardinality(BagSeqs(call.bagUsed, call.permLen))

\* Two end states whose numbers of inviable sequences differ: the slice
\* came in the other order and the sort has turned it.
InviableSeqsTurnedWitness ==
    /\ call.fn = "inviableSeqs" /\ result # NoResult
    /\ Len(call.states) = 2
    /\ inviableSizes(scorers[call.permLen], call.states[1])
           > inviableSizes(scorers[call.permLen], call.states[2])
    /\ result.value > 0

\* ------------------------------------------------------------------------
\* SeqSet (package tetris): the objects in memory and the pointers to them
\* ------------------------------------------------------------------------

\* A *SeqSet is Nil, ContainsAllSeqSet, &permutations[bag] or a pointer to
\* an allocated SeqSet.
AllPtr == [all |-> TRUE]
PermPtr(bagUsed) == [perm |-> bagUsed]
NodePtr(n) == [node |-> n]

IsAllPtr(ptr) == "all" \in DOMAIN ptr
IsPermPtr(ptr) == "perm" \in DOMAIN ptr
IsNodePtr(ptr) == "node" \in DOMAIN ptr

\* init: permutations[bagIdx] has permBag = &bagIdx and, for the pieces that
\* are not in the bag, subSeqSets[p-1] = &permutations[newBag]; a full bag
\* is equivalent to the empty bag.
permutationsInit(bagIdx) ==
    LET rest == IF PieceSetLen(bagIdx) = 7 THEN 0 ELSE bagIdx
    IN  [hasAllSeq |-> FALSE,
         subSeqSets |-> [p \in 1..7 |->
                            IF ~Contains(rest, p) THEN PermPtr(Add(rest, p))
                            ELSE Nil],
         permBag |-> <<bagIdx>>]

\* The memory when the package is initialized: the two package variables
\* and no allocated SeqSet.
InitialMemory ==
    [all |-> ContainsAllSeqSet,
     permutations |-> [bagIdx \in AllPieceSets |-> permutationsInit(bagIdx)],
     nodes |-> <<>>]

\* *ptr
load(mem, ptr) ==
    IF IsAllPtr(ptr) THEN mem.all
    ELSE IF IsPermPtr(ptr) THEN mem.permutations[ptr.perm]
    ELSE mem.nodes[ptr.node]

\* *ptr = obj
store(mem, ptr, obj) ==
    IF IsAllPtr(ptr) THEN [mem EXCEPT !.all = obj]
    ELSE IF IsPermPtr(ptr) THEN [mem EXCEPT !.permutations[ptr.perm] = obj]
    ELSE [mem EXCEPT !.nodes[ptr.node] = obj]

\* new(SeqSet): the pointer and the memory with the new SeqSet.
freshPtr(mem) == NodePtr(Len(mem.nodes) + 1)
allocate(mem) == [mem EXCEPT !.nodes = Append(@, NewSeqSetNode)]

\* Mutant of addPrefixAt: a SeqSet from the permutations table is modified
\* like any other.
RECURSIVE addPrefixIntoPermutations(_, _, _)
addPrefixIntoPermutations(mem, ptr, prefix) ==
    IF ptr = Nil THEN [mem |-> mem, panic |-> TRUE]
    ELSE LET s == load(mem, ptr)
         IN  IF s.hasAllSeq THEN [mem |-> mem, panic |-> FALSE]
             ELSE IF Len(prefix) = 0
             THEN [mem |-> store(mem, ptr,
                                 [s EXCEPT !.hasAllSeq = TRUE,
                                           !.subSeqSets = NoSubSeqSets]),
                   panic |-> FALSE]
             ELSE IF prefix[1] = EmptyPiece
             THEN [mem |-> mem, panic |-> TRUE]
             ELSE IF Len(prefix) = 1
             THEN [mem |-> store(mem, ptr,
                                 [s EXCEPT !.subSeqSets[prefix[1]] = AllPtr]),
                   panic |-> FALSE]
             ELSE IF s.subSeqSets[prefix[1]] = Nil
             THEN addPrefixIntoPermutations(
                      store(allocate(mem), ptr,
                            [s EXCEPT !.subSeqSets[prefix[1]]
                                          = freshPtr(mem)]),
                      freshPtr(mem), Tail(prefix))
             ELSE addPrefixIntoPermutations(mem, s.subSeqSets[prefix[1]],
                                            Tail(prefix))

\* AddPrefix on the SeqSet that ptr points to: the memory when the call
\* ends, and whether it ends in a panic. What was stored before a panic
\* stays stored.
RECURSIVE addPrefixAt(_, _, _)
addPrefixAt(mem, ptr, prefix) ==
    IF ptr = Nil THEN [mem |-> mem, panic |-> TRUE]
    ELSE LET s == load(mem, ptr)
         IN  IF s.hasAllSeq THEN [mem |-> mem, panic |-> FALSE]
             ELSE IF s.permBag # <<>> THEN [mem |-> mem, panic |-> TRUE]
             ELSE IF Len(prefix) = 0
             THEN [mem |-> store(mem, ptr,
                                 [s EXCEPT !.hasAllSeq = TRUE,
                                           !.subSeqSets = NoSubSeqSets]),
                   panic |-> FALSE]
             ELSE IF prefix[1] = EmptyPiece
             THEN [mem |-> mem, panic |-> TRUE]
             ELSE IF Len(prefix) = 1
             THEN [mem |-> store(mem, ptr,
                                 [s EXCEPT !.subSeqSets[prefix[1]] = AllPtr]),
                   panic |-> FALSE]
             ELSE IF s.subSeqSets[prefix[1]] = Nil
             THEN addPrefixAt(store(allocate(mem), ptr,
                                    [s EXCEPT !.subSeqSets[prefix[1]]
                                                  = freshPtr(mem)]),
                              freshPtr(mem), Tail(prefix))
             ELSE addPrefixAt(mem, s.subSeqSets[prefix[1]], Tail(prefix))

\* Union and Intersection: the memory after the call and the pointer that
\* is returned. The SeqSet of the result is allocated before the loop over
\* its subSeqSets; slotsAt is the loop from index idx on.
RECURSIVE unionAt(_, _, _)
RECURSIVE unionSlotsAt(_, _, _, _, _)
unionAt(mem, ptr, other) ==
    IF ptr = Nil THEN [mem |-> mem, ptr |-> other]
    ELSE IF other = Nil THEN [mem |-> mem, ptr |-> ptr]
    ELSE IF load(mem, ptr).hasAllSeq \/ load(mem, other).hasAllSeq
    THEN [mem |-> mem, ptr |-> AllPtr]
    ELSE [mem |-> unionSlotsAt(allocate(mem), freshPtr(mem), ptr, other, 1),
          ptr |-> freshPtr(mem)]

unionSlotsAt(mem, union, ptr, other, idx) ==
    IF idx > 7 THEN mem
    ELSE LET slot == unionAt(mem, load(mem, ptr).subSeqSets[idx],
                             load(mem, other).subSeqSets[idx])
         IN  unionSlotsAt(
                 store(slot.mem, union,
                       [load(slot.mem, union) EXCEPT
                           !.subSeqSets[idx] = slot.ptr]),
                 union, ptr, other, idx + 1)

RECURSIVE intersectionAt(_, _, _)
RECURSIVE intersectionSlotsAt(_, _, _, _, _)
intersectionAt(mem, ptr, other) ==
    IF ptr = Nil \/ other = Nil THEN [mem |-> mem, ptr |-> Nil]
    ELSE IF load(mem, ptr).hasAllSeq THEN [mem |-> mem, ptr |-> other]
    ELSE IF load(mem, other).hasAllSeq THEN [mem |-> mem, ptr |-> ptr]
    ELSE LET after == intersectionSlotsAt(allocate(mem), freshPtr(mem),
                                          ptr, other, 1)
         IN  [mem |-> after,
              ptr |-> IF \E i \in 1..7 :
                            load(after, freshPtr(mem)).subSeqSets[i] # Nil
                      THEN freshPtr(mem)
                      ELSE Nil]

intersectionSlotsAt(mem, intersect, ptr, other, idx) ==
    IF idx > 7 THEN mem
    ELSE LET slot == intersectionAt(mem, load(mem, ptr).subSeqSets[idx],
                                    load(mem, other).subSeqSets[idx])
         IN  intersectionSlotsAt(
                 store(slot.mem, intersect,
                       [load(slot.mem, intersect) EXCEPT
                           !.subSeqSets[idx] = slot.ptr]),
                 intersect, ptr, other, idx + 1)

\* decodeFromBuffer on the bytes that encodeToBuffer writes for the SeqSet
\* of ptr: 128 is decoded to ContainsAllSeqSet, 255 and a bag to
\* &permutations[bag], and a mask to a new SeqSet with the decoded
\* subSeqSets. GobEncode encodes new(SeqSet) for the nil pointer.
RECURSIVE decodedAt(_, _)
RECURSIVE decodedSlotsAt(_, _, _, _)
decodedAt(mem, ptr) ==
    IF ptr = Nil
    THEN [mem |-> allocate(mem), ptr |-> freshPtr(mem)]
    ELSE IF load(mem, ptr).hasAllSeq THEN [mem |-> mem, ptr |-> AllPtr]
    ELSE IF load(mem, ptr).permBag # <<>>
    THEN [mem |-> mem, ptr |-> PermPtr(load(mem, ptr).permBag[1])]
    ELSE [mem |-> decodedSlotsAt(allocate(mem), freshPtr(mem), ptr, 1),
          ptr |-> freshPtr(mem)]

decodedSlotsAt(mem, decoded, ptr, idx) ==
    IF idx > 7 THEN mem
    ELSE IF load(mem, ptr).subSeqSets[idx] = Nil
    THEN decodedSlotsAt(mem, decoded, ptr, idx + 1)
    ELSE LET slot == decodedAt(mem, load(mem, ptr).subSeqSets[idx])
         IN  decodedSlotsAt(
                 store(slot.mem, decoded,
                       [load(slot.mem, decoded) EXCEPT
                           !.subSeqSets[idx] = slot.ptr]),
                 decoded, ptr, idx + 1)

\* GobDecode into a new SeqSet: the fields of the decoded SeqSet are
\* copied into the receiver.
gobDecodeAt(mem, ptr) ==
    LET s2 == decodedAt(mem, ptr)
    IN  [mem |-> store(allocate(s2.mem), freshPtr(s2.mem),
                       load(s2.mem, s2.ptr)),
         ptr |-> freshPtr(s2.mem)]

\* Whether a SeqSet of the permutations table is reached from ptr; the
\* loops of Union and Intersection do not end on two of them.
RECURSIVE holdsPermutation(_, _)
holdsPermutation(mem, ptr) ==
    IF ptr = Nil \/ IsAllPtr(ptr) THEN FALSE
    ELSE IF IsPermPtr(ptr) THEN TRUE
    ELSE IF load(mem, ptr).permBag # <<>> THEN TRUE
    ELSE \E i \in 1..7 :
            holdsPermutation(mem, load(mem, ptr).subSeqSets[i])

\* At most MaxHeapCalls calls are followed, with these prefixes and these
\* bags of Permutations.
MaxHeapCalls == 3
HeapPrefixes == {<<>>, <<T>>, <<T, I>>}
HeapBags == {0}

HeapCall(fn, ptr, other, prefix) ==
    [fn |-> fn, s |-> ptr, other |-> other, prefix |-> prefix,
     n |-> call.n + 1]

\* The pointers that the caller can pass.
Held ==
    Range(roots) \cup {Nil, AllPtr} \cup {PermPtr(bagUsed) : bagUsed \in HeapBags}

\* The program has started and has made one SeqSet with new(SeqSet).
InitSeqSetHeap ==
    /\ heap = allocate(InitialMemory)
    /\ roots = <<NodePtr(1)>>
    /\ call = [fn |-> "new", s |-> Nil, other |-> Nil, prefix |-> <<>>,
               n |-> 0]
    /\ result = Value(NodePtr(1))
    /\ scores = <<>> /\ finished = <<>>
    /\ DriverUnused /\ EndStatesUnused /\ TrajectoryUnused /\ MDPUnused

heapFrame == <<scores, finished, notCallVars>>

\* The program goes on after a call that returned.
Running == result # Panic /\ call.n < MaxHeapCalls

\* s.AddPrefix(prefix)
HeapAddPrefix ==
    /\ Running
    /\ \E ptr \in Held, prefix \in HeapPrefixes :
          LET after == addPrefixAt(heap, ptr, prefix)
          IN  /\ call' = HeapCall("AddPrefix", ptr, Nil, prefix)
              /\ heap' = after.mem
              /\ result' = IF after.panic THEN Panic ELSE Value(Nil)
    /\ UNCHANGED <<roots, heapFrame>>

\* s.Union(other); the caller keeps the result.
HeapUnion ==
    /\ Running
    /\ \E ptr \in Held, other \in Held :
          /\ ~(holdsPermutation(heap, ptr) /\ holdsPermutation(heap, other))
          /\ LET after == unionAt(heap, ptr, other)
             IN  /\ call' = HeapCall("Union", ptr, other, <<>>)
                 /\ heap' = after.mem
                 /\ result' = Value(after.ptr)
                 /\ roots' = Append(roots, after.ptr)
    /\ UNCHANGED heapFrame

\* s.Intersection(other); the caller keeps the result.
HeapIntersection ==
    /\ Running
    /\ \E ptr \in Held, other \in Held :
          /\ ~(holdsPermutation(heap, ptr) /\ holdsPermutation(heap, other))
          /\ LET after == intersectionAt(heap, ptr, other)
             IN  /\ call' = HeapCall("Intersection", ptr, other, <<>>)
                 /\ heap' = after.mem
                 /\ result' = Value(after.ptr)
                 /\ roots' = Append(roots, after.ptr)
    /\ UNCHANGED heapFrame

\* new(SeqSet).GobDecode(data) with the bytes of s.GobEncode(); the caller
\* keeps the receiver.
HeapGobDecode ==
    /\ Running
    /\ \E ptr \in Held :
          LET after == gobDecodeAt(heap, ptr)
          IN  /\ call' = HeapCall("GobDecode", ptr, Nil, <<>>)
              /\ heap' = after.mem
              /\ result' = Value(after.ptr)
              /\ roots' = Append(roots, after.ptr)
    /\ UNCHANGED heapFrame

NextSeqSetHeap ==
    \/ HeapAddPrefix
    \/ HeapUnion
    \/ HeapIntersection
    \/ HeapGobDecode

SpecSeqSetHeap == InitSeqSetHeap /\ [][NextSeqSetHeap]_vars

\* The walk of AddPrefix from ptr along the prefix comes to a SeqSet of the
\* permutations table.
RECURSIVE ReachesPermutation(_, _, _)
ReachesPermutation(mem, ptr, prefix) ==
    /\ ptr # Nil
    /\ ~load(mem, ptr).hasAllSeq
    /\ \/ load(mem, ptr).permBag # <<>>
       \/ /\ Len(prefix) > 1
          /\ prefix[1] # EmptyPiece
          /\ ReachesPermutation(mem, load(mem, ptr).subSeqSets[prefix[1]],
                                Tail(prefix))

\* C37: no call of AddPrefix, on whatever SeqSet, changes ContainsAllSeqSet
\* or a SeqSet of the permutations table; a call on a SeqSet that contains
\* all sequences changes nothing; a call that comes to a SeqSet of the
\* permutations table panics and has changed nothing.
AddPrefixKeepsShared ==
    [][call'.fn = "AddPrefix" =>
          /\ heap'.all = heap.all
          /\ heap'.permutations = heap.permutations
          /\ (call'.s # Nil /\ load(heap, call'.s).hasAllSeq) =>
                (heap' = heap /\ result' # Panic)
          /\ ReachesPermutation(heap, call'.s, call'.prefix) =>
                (heap' = heap /\ result' = Panic)]_vars

\* AddPrefix was called on the intersection of a set of prefixes with
\* Permutations, whose subSeqSet of T is in the permutations table, with a
\* prefix that goes on after T: it has panicked.
AddPrefixKeepsSharedWitness ==
    /\ call.fn = "AddPrefix" /\ result = Panic
    /\ IsNodePtr(call.s) /\ Len(call.prefix) = 2
    /\ IsPermPtr(load(heap, call.s).subSeqSets[call.prefix[1]])

\* AddPrefix of one piece has replaced a pointer into the permutations
\* table by ContainsAllSeqSet.
AddPrefixOverPermutationWitness ==
    /\ call.fn = "AddPrefix" /\ result = Value(Nil)
    /\ IsNodePtr(call.s) /\ call.prefix = <<T>>
    /\ load(heap, call.s).subSeqSets[T] = AllPtr
    /\ \E ptr \in Range(roots) :
          /\ IsNodePtr(ptr) /\ ptr # call.s
          /\ IsPermPtr(load(heap, ptr).subSeqSets[T])

\* AddPrefix was called on ContainsAllSeqSet itself and on a decoded copy
\* of it.
AddPrefixOnAllWitness ==
    /\ call.fn = "AddPrefix" /\ result = Value(Nil)
    /\ call.s # Nil /\ load(heap, call.s).hasAllSeq
    /\ IsNodePtr(call.s) /\ call.prefix # <<>>

\* ------------------------------------------------------------------------
\* SeqSet: Contains and AddPrefix on sequences with the Empty piece
\* ------------------------------------------------------------------------

\* The longest sequence of the calls, and the SeqSets they are made on: the
\* nil pointer, new(SeqSet), ContainsAllSeqSet, two SeqSets of the
\* permutations table and the sets of one prefix.
MaxEmptySeqLen == 3
EmptyPieceSets ==
    {Nil, NewSeqSetNode, ContainsAllSeqSet, PermutationsOf(0),
     PermutationsOf(PieceSetOf(T)), AddPrefix(NewSeqSetNode, <<T>>),
     AddPrefix(NewSeqSetNode, <<T, I>>)}

OnSeqSetCall(fn, s, x) == [fn |-> fn, s |-> s, sequence |-> x]

InitEmptyPiece ==
    /\ \E fn \in {"SeqSet.Contains", "SeqSet.AddPrefix"},
          s \in EmptyPieceSets,
          x \in SeqsFromTo({EmptyPiece, T, I}, 0, MaxEmptySeqLen) :
            call = OnSeqSetCall(fn, s, x)
    /\ result = NoResult
    /\ scores = <<>>
    /\ finished = <<>>
    /\ heap = <<>> /\ roots = <<>>
    /\ DriverUnused /\ EndStatesUnused /\ TrajectoryUnused /\ MDPUnused

\* s.Contains(sequence)
ReturnSeqSetContains ==
    /\ Calling("SeqSet.Contains")
    /\ result' = SeqSetContains(call.s, call.sequence)
    /\ UNCHANGED callFrame

\* s.AddPrefix(prefix): it returns nothing or panics; s.hasAllSeq of the nil
\* pointer is a nil dereference.
ReturnSeqSetAddPrefix ==
    /\ Calling("SeqSet.AddPrefix")
    /\ result' = IF call.s = Nil THEN Panic
                 ELSE IF AddPrefix(call.s, call.sequence) = Panic THEN Panic
                 ELSE Value(Nil)
    /\ UNCHANGED callFrame

NextEmptyPiece ==
    \/ ReturnSeqSetContains
    \/ ReturnSeqSetAddPrefix

SpecEmptyPiece == InitEmptyPiece /\ [][NextEmptyPiece]_vars

\* C38: Contains and AddPrefix panic whenever the sequence holds the Empty
\* piece at some position, on every SeqSet; they return nothing for such a
\* sequence.
EmptyPieceIsFatal ==
    (call.fn \in {"SeqSet.Contains", "SeqSet.AddPrefix"}
        /\ result # NoResult /\ EmptyPiece \in Range(call.sequence))
    => result = Panic

\* The walk along the sequence reads the piece at every position up to the
\* first Empty piece: no SeqSet on the way is nil or contains all sequences.
RECURSIVE ReadsEmptyPiece(_, _)
ReadsEmptyPiece(s, sequence) ==
    /\ s # Nil
    /\ ~s.hasAllSeq
    /\ Len(sequence) > 0
    /\ \/ sequence[1] = EmptyPiece
       \/ ReadsEmptyPiece(sub(s, sequence[1]), Tail(sequence))

\* Contains panics when its walk reads an Empty piece and returns otherwise.
ContainsPanicsOnReadEmpty ==
    (call.fn = "SeqSet.Contains" /\ result # NoResult)
    => (result = Panic <=> ReadsEmptyPiece(call.s, call.sequence))

\* Contains has returned true for a sequence with the Empty piece.
ContainsReturnedOnEmptyPiece ==
    /\ call.fn = "SeqSet.Contains" /\ result = Value(TRUE)
    /\ call.s = AddPrefix(NewSeqSetNode, <<T>>)
    /\ call.sequence = <<T, EmptyPiece>>

\* ------------------------------------------------------------------------
\* NewNFAScorer and Score on the NFA of any list of moves
\* ------------------------------------------------------------------------

\* trans[piece][state] of an NFA; a missing map entry reads as the empty
\* list.
transOf(machine, piece, st) ==
    IF piece \in DOMAIN machine /\ st \in DOMAIN machine[piece]
    THEN machine[piece][st]
    ELSE <<>>

\* nfa.States() of an NFA.
StatesOf(machine) ==
    UNION {DOMAIN machine[piece] \cup
           UNION {Range(machine[piece][st]) : st \in DOMAIN machine[piece]} :
           piece \in DOMAIN machine}

\* nfa.EndStates of an NFA: the loop over the pieces from idx.
RECURSIVE endStatesOf(_, _, _, _)
endStatesOf(machine, cur, pieces, idx) ==
    IF idx = Len(pieces) THEN [states |-> cur, consumed |-> Len(pieces)]
    ELSE LET after == UNION {Range(transOf(machine, pieces[idx + 1], st)) :
                                st \in cur}
         IN  IF after = {} THEN [states |-> cur, consumed |-> idx]
             ELSE endStatesOf(machine, after, pieces, idx + 1)

\* NewNFAScorer: len(states) > 2<<10
tooManyStates(states) == Cardinality(states) > 2 * (2 ^ 10)

\* The one bits of a count below 2^31.
OnesOf(n) == {i \in 0..30 : (n \div (2 ^ i)) % 2 = 1}

\* The NFAs are made of the moves from field 0 to the fields 0 to ends, of
\* every piece.
EndFieldCounts == {1, 2, 3}
LargeEndFieldCounts == {127, 128, 254, 255}

movesTo(ends) ==
    [i \in 1..(7 * (ends + 1)) |->
        Move(0, (i - 1) % (ends + 1), ((i - 1) \div (ends + 1)) + 1)]

\* The states of these NFAs in a fixed order: for every field the state
\* without Hold piece, the seven SwapRestricted states and the seven states
\* with a swappable Hold piece. The end states of a score are sliced and
\* sorted into some order; the order does not change the result.
stateList(ends) ==
    [i \in 1..(15 * (ends + 1)) |->
        LET kind == ((i - 1) % 15) + 1
        IN  IF kind = 1 THEN State((i - 1) \div 15, EmptyPiece, FALSE)
            ELSE IF kind <= 8 THEN State((i - 1) \div 15, kind - 1, TRUE)
            ELSE State((i - 1) \div 15, kind - 8, FALSE)]

ScorerNexts ==
    {<<>>, <<T>>, <<T, I>>, <<T, L, J, S, Z, O, I>>,
     <<T, L, J, S, Z, O, I, T>>}
LargeScorerNexts == {<<T>>, <<T, L, J, S, Z, O, I, T>>}

ScorerCall(ends, st, nextPieces, bagUsed) ==
    [fn |-> "NewNFAScorer", ends |-> ends, state |-> st, next |-> nextPieces,
     bagUsed |-> bagUsed]

\* NewNFAScorer is about to be called with permLen 0 on the NFA of a list
\* of moves, and Score on the scorer that it returns.
InitScorer ==
    /\ \/ \E ends \in EndFieldCounts, nextPieces \in ScorerNexts,
             st \in {State(0, EmptyPiece, FALSE), State(0, T, TRUE),
                     State(0, I, FALSE), State(1, EmptyPiece, FALSE)} :
               call = ScorerCall(ends, st, nextPieces, 0)
       \/ \E ends \in LargeEndFieldCounts, nextPieces \in LargeScorerNexts :
               call = ScorerCall(ends, State(0, EmptyPiece, FALSE),
                                nextPieces, 0)
    /\ result = NoResult
    /\ scores = <<>>
    /\ finished = <<>>
    /\ heap = <<>> /\ roots = <<>>
    /\ DriverUnused /\ EndStatesUnused /\ TrajectoryUnused /\ MDPUnused

\* NewNFAScorer(nfa, 0): it panics on too many states; with permLen 0 no
\* round is made and the inviable map is empty.
ConstructScorer ==
    /\ Calling("NewNFAScorer")
    /\ LET states == StatesOf(NewNFA(movesTo(call.ends)))
       IN  result' = IF tooManyStates(states) THEN Panic
                     ELSE Value([states |-> Cardinality(states),
                                 at |-> "constructed"])
    /\ UNCHANGED callFrame

\* s.Score(state, next, bagUsed), first part: scoreTuple calls
\* s.nfa.EndStates(combo4.NewStateSet(state), next).
ScoreEndStates ==
    /\ call # <<>> /\ call.fn = "NewNFAScorer"
    /\ result # NoResult /\ result # Panic /\ result.value.at = "constructed"
    /\ LET ends == endStatesOf(NewNFA(movesTo(call.ends)), {call.state},
                               call.next, 0)
       IN  result' = Value([states |-> result.value.states,
                            at |-> "scoreTuple",
                            endStates |-> ends.states,
                            consumed |-> ends.consumed])
    /\ UNCHANGED callFrame

\* scoreTuple calls inviableSeqs when every piece was consumed:
\* inviableSeqs slices and sorts the end states and starts from
\* Permutations(bagUsed).
ScoreSlice ==
    /\ call # <<>> /\ call.fn = "NewNFAScorer"
    /\ result # NoResult /\ result # Panic /\ result.value.at = "scoreTuple"
    /\ result.value.consumed = Len(call.next)
    /\ result' = Value(
           [states |-> result.value.states,
            at |-> "inviableSeqs",
            endStates |-> result.value.endStates,
            consumed |-> result.value.consumed,
            slice |-> SelectSeq(stateList(call.ends),
                                LAMBDA st : st \in result.value.endStates),
            idx |-> 1,
            inviableForAll |-> PermutationsOf(call.bagUsed)])
    /\ UNCHANGED callFrame

\* The states of the slice that one step of the loop of inviableSeqs takes.
SliceChunk == 32

\* The loop of inviableSeqs, over the next states of the slice; the
\* inviable map of the scorer with permLen 0 is empty.
ScoreIntersect ==
    /\ call # <<>> /\ call.fn = "NewNFAScorer"
    /\ result # NoResult /\ result # Panic
    /\ result.value.at = "inviableSeqs"
    /\ result.value.idx <= Len(result.value.slice)
    /\ LET upto == IF result.value.idx + SliceChunk - 1
                         > Len(result.value.slice)
                   THEN Len(result.value.slice)
                   ELSE result.value.idx + SliceChunk - 1
       IN  result' = Value(
               [result.value EXCEPT
                   !.inviableForAll =
                       inviableForAll(
                           [permLen |-> 0, inviable |-> <<>>], @,
                           SubSeq(result.value.slice, result.value.idx, upto),
                           1),
                   !.idx = upto + 1])
    /\ UNCHANGED callFrame

\* The packed int64 of Score.
packed(pieces, invalid, numStates) ==
    Score(scoreTuple(OnesOf(pieces), OnesOf(invalid), OnesOf(numStates),
                     IntBits))

\* Score returns after inviableSeqs has returned the Size for permLen 0.
ScoreOfScorer ==
    /\ call # <<>> /\ call.fn = "NewNFAScorer"
    /\ result # NoResult /\ result # Panic
    /\ result.value.at = "inviableSeqs"
    /\ result.value.idx > Len(result.value.slice)
    /\ LET invalid == Size(result.value.inviableForAll, 0)
       IN  result' = Value(
               [states |-> result.value.states,
                at |-> "scored",
                consumed |-> result.value.consumed,
                invalidPermutations |-> invalid,
                numStates |-> Cardinality(result.value.endStates),
                score |-> packed(result.value.consumed, invalid,
                                 Cardinality(result.value.endStates))])
    /\ UNCHANGED callFrame

\* Score returns without a call of inviableSeqs: not every piece was
\* consumed and invalidPermutations is left zero.
ScoreOfUnconsumed ==
    /\ call # <<>> /\ call.fn = "NewNFAScorer"
    /\ result # NoResult /\ result # Panic /\ result.value.at = "scoreTuple"
    /\ result.value.consumed # Len(call.next)
    /\ result' = Value(
           [states |-> result.value.states,
            at |-> "scored",
            consumed |-> result.value.consumed,
            invalidPermutations |-> 0,
            numStates |-> Cardinality(result.value.endStates),
            score |-> packed(result.value.consumed, 0,
                             Cardinality(result.value.endStates))])
    /\ UNCHANGED callFrame

NextScorer ==
    \/ ConstructScorer
    \/ ScoreEndStates
    \/ ScoreSlice
    \/ ScoreIntersect
    \/ ScoreOfUnconsumed
    \/ ScoreOfScorer

SpecScorer == InitScorer /\ [][NextScorer]_vars

Scored ==
    /\ call # <<>> /\ call.fn = "NewNFAScorer"
    /\ result # NoResult /\ result # Panic /\ result.value.at = "scored"

\* C39: on every scorer that NewNFAScorer has constructed the number of end
\* states of a score is less than 2^10, so the bits of the score from bit 10
\* up are those of the consumed pieces and of the invalid permutations
\* alone.
ScoreStatesFitField ==
    Scored =>
        /\ result.value.numStates < 2 ^ 10
        /\ SubSeq(result.value.score, 11, IntBits)
             = SubSeq(packed(result.value.consumed,
                             result.value.invalidPermutations, 0),
                      11, IntBits)

\* The number of end states is at most the number of states of the NFA,
\* which is at most 2048 on a constructed scorer: it is less than 2^12.
ScoreStatesWithinGuard ==
    Scored =>
        /\ result.value.numStates <= result.value.states
        /\ result.value.states <= 2 * (2 ^ 10)

\* NewNFAScorer has panicked on an NFA of more than 2048 states.
ScorerRefused ==
    call # <<>> /\ call.fn = "NewNFAScorer" /\ result = Panic

\* A score of 1024 or more end states.
ScoreSpills == Scored /\ result.value.numStates >= 2 ^ 10

\* ------------------------------------------------------------------------
\* NewNFAScorer: the rounds, their goroutines and the two inviable maps
\* ------------------------------------------------------------------------

\* The goroutine of one state in a round of NewNFAScorer, on an NFA.
stateInviableOf(machine, st, prevInviable) ==
    PrependedSeqSets([p \in 0..7 |->
        intersectAll(ContainsAllSeqSet, transOf(machine, p, st), 1,
                     prevInviable)])

\* The inviable sets of the sequences of length n, one round after the
\* other from the empty map.
RECURSIVE inviableOfLength(_, _)
inviableOfLength(machine, n) ==
    IF n = 0 THEN <<>>
    ELSE LET before == inviableOfLength(machine, n - 1)
         IN  [st \in StatesOf(machine) |->
                 stateInviableOf(machine, st, before)]

\* The loop "for range states" with one receive less.
roundOverEarly(received, states) == received >= Len(states) - 1

\* for range states: the loop ends after len(states) receives.
roundOver(received, states) == received = Len(states)

\* The longest permutations of these scorers.
MaxScorerRounds == 3

\* NewNFAScorer reads the NFA through States and NextStates; the rounds are
\* followed on NFAs of two and three states.
small(i) == State(i, EmptyPiece, FALSE)

ScorerMachines ==
    {(T :> (small(0) :> <<small(1)>>)),
     (T :> (small(0) :> <<small(1), small(2)>> @@ small(2) :> <<small(0)>>))
        @@ (I :> (small(1) :> <<small(2)>>)),
     (T :> (small(0) :> <<small(1)>> @@ small(1) :> <<small(2)>>
              @@ small(2) :> <<small(0)>>))}

\* The orders in which Slice can list the states of a map.
SliceOrders(states) ==
    {order \in [1..Cardinality(states) -> states] : Range(order) = states}

\* NewNFAScorer(nfa, permLen) has sliced the states, has made the channel
\* and the two maps and comes to the loop over n.
InitRounds ==
    /\ \E machine \in ScorerMachines, permLen \in 1..MaxScorerRounds :
          \E states \in SliceOrders(StatesOf(machine)) :
             call = [fn |-> "NewNFAScorer.rounds", nfa |-> machine,
                     permLen |-> permLen, states |-> states,
                     at |-> "for n", n |-> 1, idx |-> 1, received |-> 0,
                     ch |-> <<>>, goroutines |-> <<>>,
                     level |-> [first |-> <<>>, second |-> <<>>]]
    /\ heap = [first |-> <<>>, second |-> <<>>]
    /\ roots = [prevInviable |-> "first", inviable |-> "second"]
    /\ result = NoResult
    /\ scores = <<>>
    /\ finished = <<>>
    /\ DriverUnused /\ EndStatesUnused /\ TrajectoryUnused /\ MDPUnused

roundsFrame == <<scores, finished, notCallVars>>

InRounds == call # <<>> /\ call.fn = "NewNFAScorer.rounds"

\* The level of the entry that a read of a map gives: 0 for a missing key.
levelOf(levels, st) == IF st \in DOMAIN levels THEN levels[st] ELSE 0

\* for n := 1; n <= permLen; n++ { prevInviable, inviable = inviable,
\* prevInviable
RoundSwap ==
    /\ InRounds /\ call.at = "for n" /\ call.n <= call.permLen
    /\ roots' = [prevInviable |-> roots.inviable,
                 inviable |-> roots.prevInviable]
    /\ call' = [call EXCEPT !.at = "go", !.idx = 1]
    /\ UNCHANGED <<heap, result, roundsFrame>>

\* for _, state := range states { go func() {...}() }
RoundGo ==
    /\ InRounds /\ call.at = "go"
    /\ IF call.idx <= Len(call.states)
       THEN call' = [call EXCEPT
                        !.goroutines =
                            Append(@, [state |-> call.states[call.idx],
                                       n |-> call.n, at |-> "run",
                                       inviable |-> Nil, read |-> {},
                                       from |-> ""]),
                        !.idx = @ + 1]
       ELSE call' = [call EXCEPT !.at = "receive", !.received = 0]
    /\ UNCHANGED <<heap, roots, result, roundsFrame>>

\* The goroutine of a state: the loop over the pieces, reading the map
\* that prevInviable points to.
GoroutineRun ==
    /\ InRounds
    /\ \E g \in DOMAIN call.goroutines :
          /\ call.goroutines[g].at = "run"
          /\ call' = [call EXCEPT
                !.goroutines[g] =
                    [@ EXCEPT
                        !.at = "send",
                        !.inviable =
                            stateInviableOf(call.nfa,
                                            call.goroutines[g].state,
                                            heap[roots.prevInviable]),
                        !.read =
                            {levelOf(call.level[roots.prevInviable], st) :
                                st \in UNION {Range(transOf(
                                                  call.nfa, p,
                                                  call.goroutines[g].state)) :
                                              p \in 0..7}},
                        !.from = roots.prevInviable]]
    /\ UNCHANGED <<heap, roots, result, roundsFrame>>

\* ch <- stateInviable{state, ...}: it waits while the channel is full;
\* the goroutine ends.
GoroutineSend ==
    /\ InRounds
    /\ Len(call.ch) < Len(call.states)
    /\ \E g \in DOMAIN call.goroutines :
          /\ call.goroutines[g].at = "send"
          /\ call' = [call EXCEPT
                !.ch = Append(@, call.goroutines[g]),
                !.goroutines = SubSeq(@, 1, g - 1)
                                  \o SubSeq(@, g + 1, Len(@))]
    /\ UNCHANGED <<heap, roots, result, roundsFrame>>

\* for range states { si := <-ch; inviable[si.state] = si.inviable }
RoundReceive ==
    /\ InRounds /\ call.at = "receive"
    /\ IF roundOver(call.received, call.states)
       THEN /\ call' = [call EXCEPT !.at = "for n", !.n = @ + 1]
            /\ UNCHANGED heap
       ELSE /\ Len(call.ch) > 0
            /\ heap' = [heap EXCEPT
                   ![roots.inviable] =
                       (Head(call.ch).state :> Head(call.ch).inviable) @@ @]
            /\ call' = [call EXCEPT
                   !.ch = Tail(@),
                   !.received = @ + 1,
                   !.level[roots.inviable] =
                       (Head(call.ch).state :> Head(call.ch).n) @@ @]
    /\ UNCHANGED <<roots, result, roundsFrame>>

\* return &NFAScorer{...} with the map that inviable points to and the
\* sizes that genSizes makes of it.
RoundsReturn ==
    /\ InRounds /\ call.at = "for n" /\ call.n > call.permLen
    /\ call' = [call EXCEPT !.at = "returned"]
    /\ result' = Value(
           [permLen |-> call.permLen,
            inviable |-> heap[roots.inviable],
            inviableSizes |->
                [st \in DOMAIN heap[roots.inviable] |->
                    Size(heap[roots.inviable][st], call.permLen)]])
    /\ UNCHANGED <<heap, roots, roundsFrame>>

NextRounds ==
    \/ RoundSwap
    \/ RoundGo
    \/ GoroutineRun
    \/ GoroutineSend
    \/ RoundReceive
    \/ RoundsReturn

SpecRounds == InitRounds /\ [][NextRounds]_vars

\* C40: in round n every goroutine reads the map prevInviable points to,
\* which holds the sets of level n-1 of all states (no entry in round 1)
\* and is not the map that is written; the maps are swapped, and the
\* scorer returned, only when every goroutine of the round has delivered
\* its result and the result is stored; the returned map holds the set of
\* level permLen of every state of the NFA.
RoundsReadCompletedLevel ==
    InRounds =>
        /\ roots.prevInviable # roots.inviable
        /\ \A g \in DOMAIN call.goroutines :
              /\ call.goroutines[g].n = call.n
              /\ call.at \in {"go", "receive"}
              /\ call.goroutines[g].at = "send" =>
                    /\ call.goroutines[g].read \subseteq {call.n - 1}
                    /\ call.goroutines[g].from = roots.prevInviable
        /\ \A i \in DOMAIN call.ch :
              /\ call.ch[i].n = call.n
              /\ call.at \in {"go", "receive"}
              /\ call.ch[i].read \subseteq {call.n - 1}
              /\ call.ch[i].from = roots.prevInviable
        /\ call.at \in {"go", "receive"} =>
              \A st \in StatesOf(call.nfa) :
                  levelOf(call.level[roots.prevInviable], st) = call.n - 1
        /\ call.at = "returned" =>
              /\ DOMAIN result.value.inviable = StatesOf(call.nfa)
              /\ \A st \in StatesOf(call.nfa) :
                    call.level[roots.inviable][st] = call.permLen
              /\ result.value.inviable
                   = inviableOfLength(call.nfa, call.permLen)

\* The scorer of permutations of length 3 of an NFA of three states is
\* returned: the map of the third round held the sets of the first round.
RoundsReadCompletedLevelWitness ==
    /\ InRounds /\ call.at = "returned" /\ call.permLen = 3
    /\ Cardinality(StatesOf(call.nfa)) = 3
    /\ \E st \in StatesOf(call.nfa) :
          /\ result.value.inviable[st] # Nil
          /\ result.value.inviableSizes[st] > 0
          /\ result.value.inviable[st]
               # inviableOfLength(call.nfa, 1)[st]

\* In the third round the map that is written holds a set of the first
\* round and a set of the third while a goroutine has not read yet.
RoundsOverwriteWitness ==
    /\ InRounds /\ call.at = "receive" /\ call.n = 3
    /\ \E g \in DOMAIN call.goroutines : call.goroutines[g].at = "run"
    /\ \E st1, st3 \in StatesOf(call.nfa) :
          /\ call.level[roots.inviable][st1] = 1
          /\ call.level[roots.inviable][st3] = 3
====
